---- MODULE Spec2Model ----
(***************************************************************************)
(* Model of the wopr-plugin-msteams activity pipeline: access policy,      *)
(* mention gating, slash-command routing, the retrying outbound layer,     *)
(* the attachment download guard, proactive sends and the plugin           *)
(* lifecycle.  Definitions keep the names of the TypeScript source         *)
(* (src/unnamed/part_004, the plugin's index.ts).                          *)
(***************************************************************************)
EXTENDS Integers, Sequences, FiniteSets, TLC

\* ------------------------------------------------------------------------
\* JavaScript values
\* ------------------------------------------------------------------------

\* `undefined` for string-valued fields (an absent property).
Undefined == "undefined"

\* Optional non-string values: None is an absent property, Some(v) a present one.
None == <<>>
Some(v) == <<v>>
IsSome(o) == Len(o) = 1
Val(o) == o[1]

\* JS truthiness of an optional string: undefined and "" are falsy.
Truthy(s) == s /= Undefined /\ s /= ""

\* Array.prototype.includes on a sequence.
Includes(seq, x) == \E i \in 1..Len(seq) : seq[i] = x

\* The position of x in a sequence without repetitions, 0 when absent.
IndexOf(seq, x) ==
    IF Includes(seq, x) THEN CHOOSE i \in 1..Len(seq) : seq[i] = x ELSE 0

\* ------------------------------------------------------------------------
\* Strings
\* ------------------------------------------------------------------------

CharAt(s, i) == SubSeq(s, i, i)

StartsWith(s, prefix) ==
    Len(s) >= Len(prefix) /\ SubSeq(s, 1, Len(prefix)) = prefix

EndsWith(s, suffix) ==
    Len(s) >= Len(suffix) /\ SubSeq(s, Len(s) - Len(suffix) + 1, Len(s)) = suffix

\* String.prototype.slice(n) for 0 <= n.
Slice(s, n) == SubSeq(s, n + 1, Len(s))

IsSpace(c) == c = " " \/ c = "\t" \/ c = "\n"

RECURSIVE TrimStart(_)
TrimStart(s) ==
    IF Len(s) > 0 /\ IsSpace(CharAt(s, 1)) THEN TrimStart(Slice(s, 1)) ELSE s

RECURSIVE TrimEnd(_)
TrimEnd(s) ==
    IF Len(s) > 0 /\ IsSpace(CharAt(s, Len(s)))
    THEN TrimEnd(SubSeq(s, 1, Len(s) - 1)) ELSE s

\* String.prototype.trim
Trim(s) == TrimEnd(TrimStart(s))

\* ------------------------------------------------------------------------
\* Bounds of the model
\* ------------------------------------------------------------------------

\* Largest maxRetries value explored by the retry executor specification.
MaxRetriesBound == 2
\* Largest base delay (ms) explored by the retry executor specification.
MaxBaseDelay == 1
\* Number of inbound activities counted by messagesProcessed before the
\* model stops accepting further routed activities.
MaxMessages == 1

\* ------------------------------------------------------------------------
\* Module-level state of the plugin
\* ------------------------------------------------------------------------

VARIABLES
    ctx,                    \* plugin context present (TRUE) or null (FALSE)
    config,                 \* MSTeamsConfig
    adapter,                \* CloudAdapter present (TRUE) or null (FALSE)
    conversationReferences, \* Map conversation id -> reference (None = no entry)
    pluginState,            \* MsteamsPluginState
    registeredCommands,     \* Map name -> command: its keys, in insertion order
    commandHandlers,        \* ... and the handler of the command under each key
    registeredParsers,      \* Map id -> message parser: the set of its keys
    turn,                   \* the webhook turn being processed / last processed
    retry,                  \* a direct withRetry / downloadAttachment invocation
    hostRegistrations,      \* what the host runtime holds registered by this plugin
    env,                    \* process.env: the three MSTEAMS_* variables
    logger,                 \* the winston logger was created (TRUE) or is undefined
    probe                   \* observation: the last direct call and its result

vars == <<ctx, config, adapter, conversationReferences, pluginState,
          registeredCommands, commandHandlers, registeredParsers, turn,
          retry, hostRegistrations, env, logger, probe>>

\* ------------------------------------------------------------------------
\* Identities used as inputs
\* ------------------------------------------------------------------------

BotId == "bot"
UserIds == {"u1", "u2"}
ConvIds == {"c1", "c2"}

\* ------------------------------------------------------------------------
\* Configuration
\* ------------------------------------------------------------------------

DmPolicies == {Undefined, "open", "pairing", "allowlist", "disabled"}
GroupPolicies == {Undefined, "open", "allowlist", "disabled"}
AllowLists == {None, Some(<<>>), Some(<<"*">>), Some(<<"u1">>)}
GroupAllowLists == {None, Some(<<>>), Some(<<"*">>), Some(<<"u2">>)}

\* let config: MSTeamsConfig = {}
EmptyConfig ==
    [dmPolicy |-> Undefined, groupPolicy |-> Undefined,
     allowFrom |-> None, groupAllowFrom |-> None,
     requireMention |-> None, replyStyle |-> Undefined,
     useAdaptiveCards |-> None, maxRetries |-> None,
     retryBaseDelayMs |-> None,
     appId |-> Undefined, appPassword |-> Undefined, tenantId |-> Undefined]

\* ------------------------------------------------------------------------
\* Access Policy Engine
\* ------------------------------------------------------------------------

\* A truthy array (every array, the empty one included) or the fallback.
OrList(o, fallback) == IF IsSome(o) THEN Val(o) ELSE fallback

isAllowed_NoDisabled(cfg, userId, conversationType) ==
    LET isGroup == conversationType = "channel" \/ conversationType = "groupChat"
    IN  IF isGroup
        THEN LET policy == IF Truthy(cfg.groupPolicy) THEN cfg.groupPolicy ELSE "allowlist"
                 allowed == OrList(cfg.groupAllowFrom, OrList(cfg.allowFrom, <<>>))
             IN  IF policy = "open" THEN TRUE
                 ELSE IF Includes(allowed, "*") THEN TRUE
                 ELSE Includes(allowed, userId)
        ELSE LET policy == IF Truthy(cfg.dmPolicy) THEN cfg.dmPolicy ELSE "pairing"
                 allowed == OrList(cfg.allowFrom, <<>>)
             IN  IF policy = "open" THEN TRUE
                 ELSE IF policy = "pairing" THEN TRUE
                 ELSE IF Includes(allowed, "*") THEN TRUE
                 ELSE Includes(allowed, userId)

isAllowed_GroupConsultsDm(cfg, userId, conversationType) ==
    LET isGroup == conversationType = "channel" \/ conversationType = "groupChat"
        dmPolicy == IF Truthy(cfg.dmPolicy) THEN cfg.dmPolicy ELSE "pairing"
    IN  IF dmPolicy = "open" THEN TRUE
        ELSE IF dmPolicy = "disabled" THEN FALSE
        ELSE IF isGroup
        THEN LET policy == IF Truthy(cfg.groupPolicy) THEN cfg.groupPolicy ELSE "allowlist"
                 allowed == OrList(cfg.groupAllowFrom, OrList(cfg.allowFrom, <<>>))
             IN  IF policy = "open" THEN TRUE
                 ELSE IF policy = "disabled" THEN FALSE
                 ELSE IF Includes(allowed, "*") THEN TRUE
                 ELSE Includes(allowed, userId)
        ELSE LET allowed == OrList(cfg.allowFrom, <<>>)
             IN  IF dmPolicy = "pairing" THEN TRUE
                 ELSE IF Includes(allowed, "*") THEN TRUE
                 ELSE Includes(allowed, userId)

isAllowed(cfg, userId, conversationType) ==
    LET isGroup == conversationType = "channel" \/ conversationType = "groupChat"
    IN  IF isGroup
        THEN LET policy == IF Truthy(cfg.groupPolicy) THEN cfg.groupPolicy ELSE "allowlist"
                 allowed == OrList(cfg.groupAllowFrom, OrList(cfg.allowFrom, <<>>))
             IN  IF policy = "open" THEN TRUE
                 ELSE IF policy = "disabled" THEN FALSE
                 ELSE IF Includes(allowed, "*") THEN TRUE
                 ELSE Includes(allowed, userId)
        ELSE LET policy == IF Truthy(cfg.dmPolicy) THEN cfg.dmPolicy ELSE "pairing"
                 allowed == OrList(cfg.allowFrom, <<>>)
             IN  IF policy = "open" THEN TRUE
                 ELSE IF policy = "disabled" THEN FALSE
                 ELSE IF policy = "pairing" THEN TRUE
                 ELSE IF Includes(allowed, "*") THEN TRUE
                 ELSE Includes(allowed, userId)

\* ------------------------------------------------------------------------
\* Retry with exponential backoff + jitter
\* ------------------------------------------------------------------------

\* An error object rejected by an operation: response.status, statusCode and
\* the response's retry-after header, each possibly absent.  `name` is the
\* object's identity.
Err(name, responseStatus, statusCode, retryAfter) ==
    [name |-> name, responseStatus |-> responseStatus,
     statusCode |-> statusCode, retryAfter |-> retryAfter]

\* `let lastError: unknown;` before any attempt.
UndefinedError == Err("undefined", None, None, Undefined)

Errors ==
    { Err("e429", Some(429), None, Undefined),
      Err("e429ra", Some(429), None, "2"),
      Err("e503ms", Some(503), None, "0.002"),
      Err("e429date", Some(429), None, "Wed, 21 Oct 2015 07:28:03 GMT"),
      Err("e500", Some(500), None, Undefined),
      Err("e599", Some(599), None, Undefined),
      Err("sc502", None, Some(502), Undefined),
      Err("e400", Some(400), None, Undefined),
      Err("e401", Some(401), None, Undefined),
      Err("e404", Some(404), None, Undefined),
      Err("e600", Some(600), None, Undefined),
      Err("sc404", None, Some(404), Undefined),
      Err("e400sc500", Some(400), Some(500), Undefined),
      Err("network", None, None, Undefined) }

\* Decimal digits of a string, for Number(value).
DigitValue(c) ==
    CASE c = "0" -> 0 [] c = "1" -> 1 [] c = "2" -> 2 [] c = "3" -> 3
      [] c = "4" -> 4 [] c = "5" -> 5 [] c = "6" -> 6 [] c = "7" -> 7
      [] c = "8" -> 8 [] c = "9" -> 9 [] OTHER -> -1

IsDigits(s) == Len(s) > 0 /\ \A i \in 1..Len(s) : DigitValue(CharAt(s, i)) >= 0

RECURSIVE DigitsToNat(_)
DigitsToNat(s) ==
    IF Len(s) = 0 THEN 0
    ELSE 10 * DigitsToNat(SubSeq(s, 1, Len(s) - 1)) + DigitValue(CharAt(s, Len(s)))

\* Number(value) for decimal strings: optional white space around an
\* optional sign, digits, and optionally a point and more digits.  The
\* result is given in thousandths, rounded down (Some(k) stands for the
\* number k / 1000), None stands for NaN; the string of white space is 0.
\* Not covered: exponents, hexadecimal, octal and binary literals, Infinity.
NumberOf(value) ==
    LET t == Trim(value)
        signed == Len(t) > 0 /\ (CharAt(t, 1) = "-" \/ CharAt(t, 1) = "+")
        sign == IF Len(t) > 0 /\ CharAt(t, 1) = "-" THEN -1 ELSE 1
        u == IF signed THEN SubSeq(t, 2, Len(t)) ELSE t
        dots == { k \in 1..Len(u) : CharAt(u, k) = "." }
        dot == IF dots = {} THEN 0 ELSE CHOOSE k \in dots : \A m \in dots : k <= m
        ip == IF dot = 0 THEN u ELSE SubSeq(u, 1, dot - 1)
        fp == IF dot = 0 THEN "" ELSE SubSeq(u, dot + 1, Len(u))
        fp3 == SubSeq(fp \o "000", 1, 3)
    IN  IF t = "" THEN Some(0)
        ELSE IF (ip = "" /\ fp = "") \/ ~(ip = "" \/ IsDigits(ip))
                \/ ~(fp = "" \/ IsDigits(fp))
        THEN None
        ELSE Some(sign * (DigitsToNat(ip) * 1000 + DigitsToNat(fp3)))

\* Date.parse(value) for the HTTP dates the model knows, in ms counted from
\* the instant of the first of them; None stands for NaN.  (A string that is
\* a negative number is not a date, or for an engine whose Date.parse
\* accepts it a date long past: parseRetryAfter returns 0 for it either way.)
DateParse(value) ==
    CASE value = "Wed, 21 Oct 2015 07:28:00 GMT" -> Some(0)
      [] value = "Wed, 21 Oct 2015 07:28:03 GMT" -> Some(3000)
      [] value = "Wed, 21 Oct 2015 07:27:55 GMT" -> Some(-5000)
      [] OTHER -> None

\* parseRetryAfter(value), with `now` what Date.now() returns (in ms counted
\* from the same instant).  seconds * 1000 is the number's thousandths.
parseRetryAfter_NoSignCheck(value, now) ==
    IF ~Truthy(value) THEN 0
    ELSE LET seconds == NumberOf(value)
             date == DateParse(value)
         IN  IF IsSome(seconds)
             THEN Val(seconds)
             ELSE IF IsSome(date)
             THEN (IF Val(date) - now > 0 THEN Val(date) - now ELSE 0)
             ELSE 0

parseRetryAfter(value, now) ==
    IF ~Truthy(value) THEN 0
    ELSE LET seconds == NumberOf(value)
             date == DateParse(value)
         IN  IF IsSome(seconds) /\ Val(seconds) >= 0
             THEN Val(seconds)
             ELSE IF IsSome(date)
             THEN (IF Val(date) - now > 0 THEN Val(date) - now ELSE 0)
             ELSE 0

\* What Date.now() returns while a withRetry invocation computes its waits.
RetryClock == 0

RECURSIVE Pow2(_)
Pow2(n) == IF n <= 0 THEN 1 ELSE 2 * Pow2(n - 1)

Max(a, b) == IF a >= b THEN a ELSE b

\* Math.floor(Math.random() * maxDelay), Math.random() in [0, 1).
JitterSet_Ceil(maxDelay) ==
    IF maxDelay > 0 THEN 0..maxDelay
    ELSE IF maxDelay < 0 THEN maxDelay..0
    ELSE {0}

JitterSet(maxDelay) ==
    IF maxDelay > 0 THEN 0..(maxDelay - 1)
    ELSE IF maxDelay < 0 THEN maxDelay..0
    ELSE {0}

\* err?.response?.status ?? err?.statusCode ?? 0
ErrStatus(err) ==
    IF IsSome(err.responseStatus) THEN Val(err.responseStatus)
    ELSE IF IsSome(err.statusCode) THEN Val(err.statusCode)
    ELSE 0

isRetryable_Any5xxOr4xx(status) == status = 429 \/ (status >= 400 /\ status < 600)

isRetryable(status) == status = 429 \/ (status >= 500 /\ status < 600)

\* opts?.maxRetries ?? config.maxRetries ?? 3
resolveMaxRetries(opt, cfg) ==
    IF IsSome(opt) THEN Val(opt)
    ELSE IF IsSome(cfg.maxRetries) THEN Val(cfg.maxRetries)
    ELSE 3

\* opts?.baseDelayMs ?? config.retryBaseDelayMs ?? 1000
resolveBaseDelayMs(opt, cfg) ==
    IF IsSome(opt) THEN Val(opt)
    ELSE IF IsSome(cfg.retryBaseDelayMs) THEN Val(cfg.retryBaseDelayMs)
    ELSE 1000

\* The position of one withRetry invocation.
\*   pc        "idle" (none), "calling" (fn invoked, awaiting it), "waiting"
\*             (awaiting the backoff timer), "returned", "thrown"
\*   calls     number of times fn was invoked (observation)
\*   errors    the error each failed call of fn rejected with (observation)
\*   thrown    the error withRetry raised (when pc = "thrown")
\*   waits     number of backoff waits started (observation)
IdleRetry ==
    [pc |-> "idle", op |-> "none", maxRetries |-> 0, baseDelayMs |-> 0,
     attempt |-> 0, calls |-> 0, errors |-> <<>>,
     lastError |-> UndefinedError, thrown |-> UndefinedError,
     delay |-> 0, waits |-> 0]

\* Entry of withRetry up to the first suspension: the loop test and, when it
\* passes, the first invocation of fn.
withRetryEnter(op, maxRetries, baseDelayMs) ==
    IF 0 <= maxRetries
    THEN [IdleRetry EXCEPT !.op = op, !.maxRetries = maxRetries,
                           !.baseDelayMs = baseDelayMs,
                           !.pc = "calling", !.calls = 1]
    ELSE [IdleRetry EXCEPT !.op = op, !.maxRetries = maxRetries,
                           !.baseDelayMs = baseDelayMs,
                           !.pc = "thrown", !.thrown = UndefinedError]

\* fn() resolved: `return await fn()`.
withRetryResolve(r) ==
    [r EXCEPT !.pc = "returned"]

\* fn() rejected with err: the catch block, with `jitter` the value drawn for
\* Math.floor(Math.random() * maxDelay).
withRetryCatch_OffByOne(r, err, jitter) ==
    LET status == ErrStatus(err)
    IN  IF ~isRetryable(status) \/ r.attempt + 1 = r.maxRetries
        THEN [r EXCEPT !.pc = "thrown", !.thrown = err, !.lastError = err,
                       !.errors = Append(@, err)]
        ELSE [r EXCEPT !.pc = "waiting", !.lastError = err,
                       !.errors = Append(@, err),
                       !.delay = Max(jitter, parseRetryAfter(err.retryAfter,
                                                            RetryClock)),
                       !.waits = @ + 1]

withRetryCatch(r, err, jitter) ==
    LET status == ErrStatus(err)
    IN  IF ~isRetryable(status) \/ r.attempt = r.maxRetries
        THEN [r EXCEPT !.pc = "thrown", !.thrown = err, !.lastError = err,
                       !.errors = Append(@, err)]
        ELSE [r EXCEPT !.pc = "waiting", !.lastError = err,
                       !.errors = Append(@, err),
                       !.delay = Max(jitter, parseRetryAfter(err.retryAfter,
                                                            RetryClock)),
                       !.waits = @ + 1]

\* The values Math.floor(Math.random() * maxDelay) can take for the wait
\* that follows attempt r.attempt.
RetryJitters(r) == JitterSet(r.baseDelayMs * Pow2(r.attempt))

\* The backoff timer fired: attempt++, the loop test, the next fn().
withRetryTimer(r) ==
    IF r.attempt + 1 <= r.maxRetries
    THEN [r EXCEPT !.attempt = @ + 1, !.pc = "calling", !.calls = @ + 1]
    ELSE [r EXCEPT !.attempt = @ + 1, !.pc = "thrown", !.thrown = r.lastError]

\* ------------------------------------------------------------------------
\* Slash command processing
\* ------------------------------------------------------------------------

\* registeredCommands is a Map: its keys, the command names, are a sequence
\* in insertion order (cmds), the handlers of its values a sequence in the
\* same order (handlers).
NoMatch == [matched |-> FALSE, name |-> Undefined, args |-> ""]

RECURSIVE matchFrom_PrefixOnly(_, _, _)
matchFrom_PrefixOnly(trimmed, cmds, i) ==
    IF i > Len(cmds) THEN NoMatch
    ELSE LET prefix == "/" \o cmds[i]
         IN  IF StartsWith(trimmed, prefix)
             THEN [matched |-> TRUE, name |-> cmds[i],
                   args |-> Trim(Slice(trimmed, Len(prefix)))]
             ELSE matchFrom_PrefixOnly(trimmed, cmds, i + 1)

RECURSIVE matchFrom(_, _, _)
matchFrom(trimmed, cmds, i) ==
    IF i > Len(cmds) THEN NoMatch
    ELSE LET prefix == "/" \o cmds[i]
         IN  IF trimmed = prefix \/ StartsWith(trimmed, prefix \o " ")
             THEN [matched |-> TRUE, name |-> cmds[i],
                   args |-> Trim(Slice(trimmed, Len(prefix)))]
             ELSE matchFrom(trimmed, cmds, i + 1)

matchSlashCommand(text, cmds) == matchFrom(Trim(text), cmds, 1)

\* ------------------------------------------------------------------------
\* Inbound activities
\* ------------------------------------------------------------------------

Mention(id) == [type |-> "mention", mentioned |-> id]

Activity(type, from, text, conversation, conversationType, entities, id) ==
    [type |-> type, from |-> from, fromName |-> "Ann", recipient |-> BotId,
     text |-> text,
     conversation |-> conversation, conversationType |-> conversationType,
     entities |-> entities, id |-> id,
     tenantId |-> Undefined, teamId |-> Undefined, channelId |-> Undefined]

EntityLists ==
    { None, Some(<<>>), Some(<<Mention(BotId)>>), Some(<<Mention("u2")>>),
      Some(<<[type |-> "clientInfo", mentioned |-> BotId]>>) }

ConversationKinds == {Undefined, "personal", "channel", "groupChat"}

\* Activities offered to the pipeline specification: every message activity
\* of conversation c1, and a sample of non-message activities and of
\* activities without a conversation id.
Activities ==
    { Activity("message", f, tx, "c1", ct, en, "m1") :
        f \in UserIds \cup {BotId, Undefined},
        tx \in {"hello", "/status now"},
        ct \in ConversationKinds,
        en \in EntityLists }
    \cup
    { Activity("conversationUpdate", f, tx, "c1", ct, en, "m1") :
        f \in {"u1", BotId},
        tx \in {"hello", "/status now"},
        ct \in {"personal", "channel"},
        en \in {None, Some(<<Mention(BotId)>>)} }
    \cup
    { Activity("message", "u1", tx, Undefined, ct, Some(<<Mention(BotId)>>), "m1") :
        tx \in {"hello", "/status now"},
        ct \in {"personal", "channel"} }

\* TurnContext.getConversationReference(activity)
getConversationReference(a) ==
    [activityId |-> a.id, bot |-> a.recipient, conversation |-> a.conversation]

\* storeConversationReference(activity): the map after the call.
storeConversationReference_KeepFirst(refs, a) ==
    IF ~Truthy(a.conversation) THEN refs
    ELSE IF IsSome(refs[a.conversation]) THEN refs
    ELSE [refs EXCEPT ![a.conversation] = Some(getConversationReference(a))]

storeConversationReference(refs, a) ==
    IF ~Truthy(a.conversation) THEN refs
    ELSE [refs EXCEPT ![a.conversation] = Some(getConversationReference(a))]

\* activity.entities?.some(e => e.type === "mention" &&
\*                              e.mentioned?.id === activity.recipient?.id)
\* (undefined, hence falsy, when the activity has no entity list)
isMentioned_AnyMention(a) ==
    IsSome(a.entities) /\
    \E i \in 1..Len(Val(a.entities)) : Val(a.entities)[i].type = "mention"

isMentioned(a) ==
    IsSome(a.entities) /\
    \E i \in 1..Len(Val(a.entities)) :
        /\ Val(a.entities)[i].type = "mention"
        /\ Val(a.entities)[i].mentioned = a.recipient

IsGroupKind_AnyButPersonal(conversationType) ==
    Truthy(conversationType) /\ conversationType /= "personal"

IsGroupKind(conversationType) ==
    conversationType = "channel" \/ conversationType = "groupChat"

\* config.requireMention !== false
requireMention(cfg) == ~(IsSome(cfg.requireMention) /\ Val(cfg.requireMention) = FALSE)

\* ------------------------------------------------------------------------
\* Activity processing: the gates
\* ------------------------------------------------------------------------

\* The decisions of processActivity between storing the reference and the
\* state tracking: which return is taken (outcome), what isAllowed answered
\* if it was asked (decision) and what the mention test found if it was made
\* (mentionCheck).
GateResult(outcome, decision, mentionCheck) ==
    [outcome |-> outcome, decision |-> decision, mentionCheck |-> mentionCheck]

\* conversationType || "personal"
KindOrPersonal(a) ==
    IF Truthy(a.conversationType) THEN a.conversationType ELSE "personal"

processActivityGate_NoPolicy(cfg, a) ==
    IF a.type /= "message" THEN GateResult("filtered", "none", "none")
    ELSE IF a.from = a.recipient THEN GateResult("filtered", "none", "none")
    ELSE IF ~Truthy(a.from) \/ ~Truthy(a.conversation)
         THEN GateResult("incomplete", "none", "none")
    ELSE LET decision == IF isAllowed(cfg, a.from, KindOrPersonal(a))
                         THEN "allow" ELSE "deny"
         IN  IF IsGroupKind(a.conversationType) /\ requireMention(cfg)
             THEN IF isMentioned(a)
                  THEN GateResult("routed", decision, "mentioned")
                  ELSE GateResult("suppressed", decision, "notMentioned")
             ELSE GateResult("routed", decision, "none")

processActivityGate_NoMentionGate(cfg, a) ==
    IF a.type /= "message" THEN GateResult("filtered", "none", "none")
    ELSE IF a.from = a.recipient THEN GateResult("filtered", "none", "none")
    ELSE IF ~Truthy(a.from) \/ ~Truthy(a.conversation)
         THEN GateResult("incomplete", "none", "none")
    ELSE IF ~isAllowed(cfg, a.from, KindOrPersonal(a))
         THEN GateResult("blocked", "deny", "none")
    ELSE IF IsGroupKind(a.conversationType) /\ requireMention(cfg)
         THEN IF isMentioned(a)
              THEN GateResult("routed", "allow", "mentioned")
              ELSE GateResult("routed", "allow", "notMentioned")
    ELSE GateResult("routed", "allow", "none")

processActivityGate_NoSelfFilter(cfg, a) ==
    IF a.type /= "message" THEN GateResult("filtered", "none", "none")
    ELSE IF ~Truthy(a.from) \/ ~Truthy(a.conversation)
         THEN GateResult("incomplete", "none", "none")
    ELSE IF ~isAllowed(cfg, a.from, KindOrPersonal(a))
         THEN GateResult("blocked", "deny", "none")
    ELSE IF IsGroupKind(a.conversationType) /\ requireMention(cfg)
         THEN IF isMentioned(a)
              THEN GateResult("routed", "allow", "mentioned")
              ELSE GateResult("suppressed", "allow", "notMentioned")
    ELSE GateResult("routed", "allow", "none")

processActivityGate(cfg, a) ==
    IF a.type /= "message" THEN GateResult("filtered", "none", "none")
    ELSE IF a.from = a.recipient THEN GateResult("filtered", "none", "none")
    ELSE IF ~Truthy(a.from) \/ ~Truthy(a.conversation)
         THEN GateResult("incomplete", "none", "none")
    ELSE IF ~isAllowed(cfg, a.from, KindOrPersonal(a))
         THEN GateResult("blocked", "deny", "none")
    ELSE IF IsGroupKind(a.conversationType) /\ requireMention(cfg)
         THEN IF isMentioned(a)
              THEN GateResult("routed", "allow", "mentioned")
              ELSE GateResult("suppressed", "allow", "notMentioned")
    ELSE GateResult("routed", "allow", "none")

\* ------------------------------------------------------------------------
\* Runtime state and the webhook turn
\* ------------------------------------------------------------------------

\* let pluginState: MsteamsPluginState = { initialized: false, ... }
EmptyPluginState ==
    [initialized |-> FALSE, startedAt |-> None, teams |-> {}, channels |-> {},
     tenants |-> {}, messagesProcessed |-> 0, activeConversations |-> {}]

\* getStatus() of the WebMCP extension: online and uptimeMs (None: null).
getStatus(state) ==
    [online |-> state.initialized,
     uptimeMs |-> IF state.startedAt /= None THEN Some("elapsed") ELSE None]

\* The state tracking of processActivity for a routed activity.  teams is
\* the key set of the teams map, channels the set of <<team id, channel id>>
\* pairs of the channels map.
trackState_ChannelWithoutTeam(ps, a) ==
    [ps EXCEPT
       !.messagesProcessed = @ + 1,
       !.activeConversations = @ \cup {a.conversation},
       !.tenants = IF Truthy(a.tenantId) THEN @ \cup {a.tenantId} ELSE @,
       !.teams = IF Truthy(a.teamId) THEN @ \cup {a.teamId} ELSE @,
       !.channels = IF Truthy(a.channelId)
                    THEN @ \cup {<<a.teamId, a.channelId>>} ELSE @]

trackState(ps, a) ==
    [ps EXCEPT
       !.messagesProcessed = @ + 1,
       !.activeConversations = @ \cup {a.conversation},
       !.tenants = IF Truthy(a.tenantId) THEN @ \cup {a.tenantId} ELSE @,
       !.teams = IF Truthy(a.teamId) THEN @ \cup {a.teamId} ELSE @,
       !.channels = IF Truthy(a.channelId) /\ Truthy(a.teamId)
                    THEN @ \cup {<<a.teamId, a.channelId>>} ELSE @]

\* The reply activity built by sendResponse for the triggering activity a.
replyActivity_AlwaysThread(cfg, a, text) ==
    [kind |-> IF ~(IsSome(cfg.useAdaptiveCards) /\ Val(cfg.useAdaptiveCards) = FALSE)
              THEN "card" ELSE "text",
     text |-> text,
     replyToId |-> IF Truthy(a.id) THEN a.id ELSE Undefined]

replyActivity(cfg, a, text) ==
    [kind |-> IF ~(IsSome(cfg.useAdaptiveCards) /\ Val(cfg.useAdaptiveCards) = FALSE)
              THEN "card" ELSE "text",
     text |-> text,
     replyToId |-> IF cfg.replyStyle = "thread" /\ Truthy(a.id)
                   THEN a.id ELSE Undefined]

NoActivity == Activity("none", Undefined, "", Undefined, Undefined, None, Undefined)

\* One webhook turn.
\*   pc            "idle"       no turn yet
\*                 "inject"     awaiting ctx.inject
\*                 "handler"    awaiting the command handler
\*                 "send"       inside sendResponse's withRetry (turn.send)
\*                 "turnError"  processActivity raised; onTurnError pending
\*                 "done"       the turn is over
\*   outcome       the return taken by the synchronous part
\*   command, args, handler: the matched command, its arguments and the
\*                 handler that is invoked
\*   injects, handlerCalls, sendAttempts, sent: what the turn did so far
\*   sessionKey, injected: the session key and text given to ctx.inject
\*   response      what ctx.inject resolved with
\*   handlerRaised the command handler rejected
\*   result        what the command handler resolved with
\*   raised        processActivity raised to adapter.process
\*   status        HTTP status written by handleWebhook itself (0: none)
IdleTurn ==
    [pc |-> "idle", activity |-> NoActivity, outcome |-> "none",
     decision |-> "none", mentionCheck |-> "none",
     command |-> Undefined, args |-> "",
     handler |-> Undefined,
     injects |-> 0, sessionKey |-> Undefined, injected |-> "",
     response |-> Undefined, handlerCalls |-> 0, replies |-> 0,
     handlerRaised |-> FALSE, result |-> Undefined,
     sendAttempts |-> 0, sent |-> <<>>, send |-> IdleRetry,
     payload |-> replyActivity(EmptyConfig, NoActivity, ""),
     raised |-> FALSE, status |-> 0]

\* sendResponse(turnContext, text) up to its first suspension: withRetry is
\* entered and, if the loop runs, the reply is built and sendActivity called.
sendResponse_NoRetry(t, cfg, purpose, text) ==
    [t EXCEPT !.pc = "send", !.send = [IdleRetry EXCEPT !.op = purpose],
              !.payload = replyActivity(cfg, t.activity, text),
              !.sendAttempts = @ + 1]

sendResponse(t, cfg, purpose, text) ==
    LET r == withRetryEnter(purpose, resolveMaxRetries(None, cfg),
                            resolveBaseDelayMs(None, cfg))
    IN  IF r.pc = "calling"
        THEN [t EXCEPT !.pc = "send", !.send = r,
                       !.payload = replyActivity(cfg, t.activity, text),
                       !.sendAttempts = @ + 1]
        ELSE [t EXCEPT !.pc = "turnError", !.send = r, !.raised = TRUE]

\* const sessionKey = `msteams-${conversationId}`
sessionKey_ChannelId(a) == "msteams:" \o a.conversation

sessionKey(a) == "msteams-" \o a.conversation

\* processActivity(turnContext) from the gates on, up to the first suspension.
processActivityRoute_NoReturn(cfg, cmds, handlers, a) ==
    LET g == processActivityGate(cfg, a)
        t0 == [IdleTurn EXCEPT !.activity = a, !.outcome = g.outcome,
                               !.decision = g.decision,
                               !.mentionCheck = g.mentionCheck]
        m == matchSlashCommand(a.text, cmds)
        userName == IF Truthy(a.fromName) THEN a.fromName ELSE "Unknown"
    IN  IF g.outcome /= "routed" THEN [t0 EXCEPT !.pc = "done"]
        ELSE IF m.matched
        THEN [t0 EXCEPT !.pc = "handler", !.command = m.name, !.args = m.args,
                        !.handler = handlers[IndexOf(cmds, m.name)],
                        !.handlerCalls = 1, !.injects = 1,
                        !.sessionKey = sessionKey(a),
                        !.injected = "[" \o userName \o "]: " \o a.text]
        ELSE [t0 EXCEPT !.pc = "inject", !.injects = 1,
                        !.sessionKey = sessionKey(a),
                        !.injected = "[" \o userName \o "]: " \o a.text]

processActivityRoute_CommandFirst(cfg, cmds, handlers, a) ==
    LET g == processActivityGate(cfg, a)
        t0 == [IdleTurn EXCEPT !.activity = a, !.outcome = g.outcome,
                               !.decision = g.decision,
                               !.mentionCheck = g.mentionCheck]
        m == matchSlashCommand(a.text, cmds)
        userName == IF Truthy(a.fromName) THEN a.fromName ELSE "Unknown"
    IN  IF g.outcome \in {"filtered", "incomplete"} THEN [t0 EXCEPT !.pc = "done"]
        ELSE IF m.matched
        THEN [t0 EXCEPT !.pc = "handler", !.command = m.name, !.args = m.args,
                        !.handler = handlers[IndexOf(cmds, m.name)],
                        !.handlerCalls = 1]
        ELSE IF g.outcome /= "routed" THEN [t0 EXCEPT !.pc = "done"]
        ELSE [t0 EXCEPT !.pc = "inject", !.injects = 1,
                        !.sessionKey = sessionKey(a),
                        !.injected = "[" \o userName \o "]: " \o a.text]

processActivityRoute(cfg, cmds, handlers, a) ==
    LET g == processActivityGate(cfg, a)
        t0 == [IdleTurn EXCEPT !.activity = a, !.outcome = g.outcome,
                               !.decision = g.decision,
                               !.mentionCheck = g.mentionCheck]
        m == matchSlashCommand(a.text, cmds)
        userName == IF Truthy(a.fromName) THEN a.fromName ELSE "Unknown"
    IN  IF g.outcome /= "routed" THEN [t0 EXCEPT !.pc = "done"]
        ELSE IF m.matched
        THEN [t0 EXCEPT !.pc = "handler", !.command = m.name, !.args = m.args,
                        !.handler = handlers[IndexOf(cmds, m.name)],
                        !.handlerCalls = 1]
        ELSE [t0 EXCEPT !.pc = "inject", !.injects = 1,
                        !.sessionKey = sessionKey(a),
                        !.injected = "[" \o userName \o "]: " \o a.text]

\* ------------------------------------------------------------------------
\* Plugin lifecycle
\* ------------------------------------------------------------------------

NoEnv == [MSTEAMS_APP_ID |-> Undefined, MSTEAMS_APP_PASSWORD |-> Undefined,
          MSTEAMS_TENANT_ID |-> Undefined]

\* a || b on optional strings
OrStr(a, b) == IF Truthy(a) THEN a ELSE b

\* resolveCredentials(): None for null.
resolveCredentials_EnvFirst(cfg, e) ==
    LET appId == OrStr(e.MSTEAMS_APP_ID, cfg.appId)
        appPassword == OrStr(e.MSTEAMS_APP_PASSWORD, cfg.appPassword)
        tenantId == OrStr(e.MSTEAMS_TENANT_ID, cfg.tenantId)
    IN  IF ~Truthy(appId) \/ ~Truthy(appPassword) \/ ~Truthy(tenantId)
        THEN None
        ELSE Some([appId |-> appId, appPassword |-> appPassword,
                   tenantId |-> tenantId])

resolveCredentials(cfg, e) ==
    LET appId == OrStr(cfg.appId, e.MSTEAMS_APP_ID)
        appPassword == OrStr(cfg.appPassword, e.MSTEAMS_APP_PASSWORD)
        tenantId == OrStr(cfg.tenantId, e.MSTEAMS_TENANT_ID)
    IN  IF ~Truthy(appId) \/ ~Truthy(appPassword) \/ ~Truthy(tenantId)
        THEN None
        ELSE Some([appId |-> appId, appPassword |-> appPassword,
                   tenantId |-> tenantId])

\* initAdapter(): the settings ConfigurationBotFrameworkAuthentication is
\* constructed with for the new adapter, None when it returns null.
initAdapter(cfg, e) ==
    LET creds == resolveCredentials(cfg, e)
    IN  IF ~IsSome(creds) THEN None
        ELSE Some([MicrosoftAppId |-> Val(creds).appId,
                   MicrosoftAppPassword |-> Val(creds).appPassword,
                   MicrosoftAppTenantId |-> Val(creds).tenantId])

\* How plugin.init ends for the configuration cfg and the environment e:
\*   "warned"  credentials not configured: a warning is logged, init returns
\*   "thrown"  a credential is blank: init throws an Error with `message`
\*   "ready"   the adapter is created and init runs to its end
InitOutcome(how, message) == [how |-> how, message |-> message]

initOutcome_NoBlankCheck(cfg, e) ==
    LET creds == resolveCredentials(cfg, e)
    IN  IF ~IsSome(creds) THEN InitOutcome("warned", Undefined)
        ELSE InitOutcome("ready", Undefined)

initOutcome(cfg, e) ==
    LET creds == resolveCredentials(cfg, e)
    IN  IF ~IsSome(creds) THEN InitOutcome("warned", Undefined)
        ELSE IF Trim(Val(creds).appId) = ""
        THEN InitOutcome("thrown",
               "MS Teams appId is empty. Provide a valid Azure Bot App ID.")
        ELSE IF Trim(Val(creds).appPassword) = ""
        THEN InitOutcome("thrown",
               "MS Teams appPassword is empty. Provide a valid Azure Bot App Password.")
        ELSE IF Trim(Val(creds).tenantId) = ""
        THEN InitOutcome("thrown",
               "MS Teams tenantId is empty. Provide a valid Azure AD Tenant ID.")
        ELSE InitOutcome("ready", Undefined)

\* plugin.init(context) with context.getConfig() = cfg.  The configuration
\* schema, the channel provider and the extension are registered with the
\* host before the credentials are looked at.  (The lifecycle and
\* registry calls leave the observation `probe` to the specification that
\* takes them.)
PluginInit_SchemaAfterCredentials(cfg) ==
    LET registered == hostRegistrations \cup {"provider:msteams", "extension:msteams"}
    IN  /\ ctx' = TRUE
        /\ config' = cfg
        /\ logger' = TRUE
        /\ IF initOutcome(cfg, env).how /= "ready"
           THEN /\ hostRegistrations' = registered
                /\ UNCHANGED <<adapter, pluginState>>
           ELSE /\ adapter' = TRUE
                /\ pluginState' = [pluginState EXCEPT !.initialized = TRUE,
                                                      !.startedAt = Some("now")]
                /\ hostRegistrations' =
                     registered \cup {"configSchema:msteams",
                                      "extension:msteams-webmcp"}
        /\ UNCHANGED <<conversationReferences, registeredCommands,
                       commandHandlers, registeredParsers, turn, retry, env>>

PluginInit_MarksBeforeCredentials(cfg) ==
    LET registered == hostRegistrations \cup
                        {"configSchema:msteams", "provider:msteams",
                         "extension:msteams"}
    IN  /\ ctx' = TRUE
        /\ config' = cfg
        /\ logger' = TRUE
        /\ pluginState' = [pluginState EXCEPT !.initialized = TRUE,
                                              !.startedAt = Some("now")]
        /\ IF initOutcome(cfg, env).how /= "ready"
           THEN /\ hostRegistrations' = registered
                /\ UNCHANGED adapter
           ELSE /\ adapter' = TRUE
                /\ hostRegistrations' = registered \cup {"extension:msteams-webmcp"}
        /\ UNCHANGED <<conversationReferences, registeredCommands,
                       commandHandlers, registeredParsers, turn, retry, env>>

PluginInit(cfg) ==
    LET registered == hostRegistrations \cup
                        {"configSchema:msteams", "provider:msteams",
                         "extension:msteams"}
    IN  /\ ctx' = TRUE
        /\ config' = cfg
        /\ logger' = TRUE
        /\ IF initOutcome(cfg, env).how /= "ready"
           THEN /\ hostRegistrations' = registered
                /\ UNCHANGED <<adapter, pluginState>>
           ELSE /\ adapter' = TRUE
                /\ pluginState' = [pluginState EXCEPT !.initialized = TRUE,
                                                      !.startedAt = Some("now")]
                /\ hostRegistrations' = registered \cup {"extension:msteams-webmcp"}
        /\ UNCHANGED <<conversationReferences, registeredCommands,
                       commandHandlers, registeredParsers, turn, retry, env>>

\* plugin.shutdown().  Before the first init the logger is undefined and
\* logger.info raises before anything is changed.
PluginShutdown_KeepsReferences ==
    /\ logger
    /\ hostRegistrations' =
         IF ctx THEN hostRegistrations \ {"provider:msteams", "extension:msteams"}
         ELSE hostRegistrations
    /\ registeredCommands' = <<>>
    /\ commandHandlers' = <<>>
    /\ registeredParsers' = {}
    /\ adapter' = FALSE
    /\ ctx' = FALSE
    /\ pluginState' = EmptyPluginState
    /\ UNCHANGED <<conversationReferences, config, turn, retry, env, logger>>

PluginShutdown_CancelsRetries ==
    /\ logger
    /\ hostRegistrations' =
         IF ctx THEN hostRegistrations \ {"provider:msteams", "extension:msteams"}
         ELSE hostRegistrations
    /\ registeredCommands' = <<>>
    /\ commandHandlers' = <<>>
    /\ registeredParsers' = {}
    /\ conversationReferences' = [c \in DOMAIN conversationReferences |-> None]
    /\ adapter' = FALSE
    /\ ctx' = FALSE
    /\ pluginState' = EmptyPluginState
    /\ turn' = IF turn.pc = "send"
               THEN [turn EXCEPT !.pc = "done", !.send = IdleRetry]
               ELSE turn
    /\ retry' = IF retry.pc \in {"calling", "waiting"} THEN IdleRetry ELSE retry
    /\ UNCHANGED <<config, env, logger>>

PluginShutdown ==
    /\ logger
    /\ hostRegistrations' =
         IF ctx THEN hostRegistrations \ {"provider:msteams", "extension:msteams"}
         ELSE hostRegistrations
    /\ registeredCommands' = <<>>
    /\ commandHandlers' = <<>>
    /\ registeredParsers' = {}
    /\ conversationReferences' = [c \in DOMAIN conversationReferences |-> None]
    /\ adapter' = FALSE
    /\ ctx' = FALSE
    /\ pluginState' = EmptyPluginState
    /\ UNCHANGED <<config, turn, retry, env, logger>>

\* msteamsChannelProvider.registerCommand(cmd) with cmd.name = name and
\* cmd.handler = handler.  Map.prototype.set appends a key that is new and
\* keeps the position of a key that is present, replacing its value.
RegisterCommandAs_KeepFirst(name, handler) ==
    LET i == IndexOf(registeredCommands, name)
    IN  /\ registeredCommands' =
             IF i = 0 THEN Append(registeredCommands, name)
             ELSE registeredCommands
        /\ commandHandlers' =
             IF i = 0 THEN Append(commandHandlers, handler)
             ELSE commandHandlers
        /\ UNCHANGED <<ctx, config, adapter, conversationReferences,
                       pluginState, registeredParsers, turn, retry,
                       hostRegistrations, env, logger>>

RegisterCommandAs(name, handler) ==
    LET i == IndexOf(registeredCommands, name)
    IN  /\ registeredCommands' =
             IF i = 0 THEN Append(registeredCommands, name)
             ELSE registeredCommands
        /\ commandHandlers' =
             IF i = 0 THEN Append(commandHandlers, handler)
             ELSE [commandHandlers EXCEPT ![i] = handler]
        /\ UNCHANGED <<ctx, config, adapter, conversationReferences,
                       pluginState, registeredParsers, turn, retry,
                       hostRegistrations, env, logger>>

\* registerCommand of the command `name` with its one handler.
RegisterCommand(name) == RegisterCommandAs(name, "h1")

\* msteamsChannelProvider.unregisterCommand(name): Map.prototype.delete.
UnregisterCommand(name) ==
    LET i == IndexOf(registeredCommands, name)
    IN  /\ registeredCommands' =
             SelectSeq(registeredCommands, LAMBDA n : n /= name)
        /\ commandHandlers' =
             IF i = 0 THEN commandHandlers
             ELSE SubSeq(commandHandlers, 1, i - 1)
                    \o SubSeq(commandHandlers, i + 1, Len(commandHandlers))
        /\ UNCHANGED <<ctx, config, adapter, conversationReferences,
                       pluginState, registeredParsers, turn, retry,
                       hostRegistrations, env, logger>>

\* msteamsChannelProvider.addMessageParser(parser)
AddMessageParser(id) ==
    /\ registeredParsers' = registeredParsers \cup {id}
    /\ UNCHANGED <<ctx, config, adapter, conversationReferences, pluginState,
                   registeredCommands, commandHandlers, turn, retry,
                   hostRegistrations, env, logger>>

\* ------------------------------------------------------------------------
\* The webhook turn
\* ------------------------------------------------------------------------

TurnFree == turn.pc = "idle"

\* handleWebhook(req, res) delivering activity a, up to the first suspension
\* of processActivity.  Without an adapter the request is answered 500
\* without being read.
HandleWebhook_TrackBeforePolicy(a) ==
    /\ TurnFree
    /\ pluginState.messagesProcessed < MaxMessages
    /\ IF ~adapter
       THEN /\ turn' = [IdleTurn EXCEPT !.pc = "done",
                                        !.outcome = "notInitialized",
                                        !.status = 500]
            /\ UNCHANGED <<conversationReferences, pluginState>>
       ELSE IF ~ctx
       THEN /\ turn' = [IdleTurn EXCEPT !.pc = "done", !.activity = a,
                                        !.outcome = "noContext"]
            /\ UNCHANGED <<conversationReferences, pluginState>>
       ELSE LET t == processActivityRoute(config, registeredCommands,
                                              commandHandlers, a)
            IN  /\ turn' = t
                /\ conversationReferences' =
                     storeConversationReference(conversationReferences, a)
                /\ pluginState' = IF t.outcome \in {"routed", "blocked", "suppressed"}
                                  THEN trackState(pluginState, a)
                                  ELSE pluginState
    /\ UNCHANGED <<ctx, config, adapter, registeredCommands, commandHandlers,
                   registeredParsers, retry, hostRegistrations, env, logger,
                   probe>>

HandleWebhook(a) ==
    /\ TurnFree
    /\ pluginState.messagesProcessed < MaxMessages
    /\ IF ~adapter
       THEN /\ turn' = [IdleTurn EXCEPT !.pc = "done",
                                        !.outcome = "notInitialized",
                                        !.status = 500]
            /\ UNCHANGED <<conversationReferences, pluginState>>
       ELSE IF ~ctx
       THEN /\ turn' = [IdleTurn EXCEPT !.pc = "done", !.activity = a,
                                        !.outcome = "noContext"]
            /\ UNCHANGED <<conversationReferences, pluginState>>
       ELSE LET t == processActivityRoute(config, registeredCommands,
                                              commandHandlers, a)
            IN  /\ turn' = t
                /\ conversationReferences' =
                     storeConversationReference(conversationReferences, a)
                /\ pluginState' = IF t.outcome = "routed"
                                  THEN trackState(pluginState, a)
                                  ELSE pluginState
    /\ UNCHANGED <<ctx, config, adapter, registeredCommands, commandHandlers,
                   registeredParsers, retry, hostRegistrations, env, logger,
                   probe>>

TurnUnchanged == UNCHANGED <<ctx, config, adapter, conversationReferences,
                             pluginState, registeredCommands,
                             commandHandlers, registeredParsers, retry,
                             hostRegistrations, env, logger, probe>>

AgentReplies == {"reply"}

\* What a command handler resolves with: nothing, or a text.
HandlerResults == {Undefined, "All systems operational"}

\* ctx.inject resolved with `response`: injectMessage calls sendResponse.
AgentResolves(response) ==
    /\ turn.pc = "inject"
    /\ turn' = sendResponse([turn EXCEPT !.response = response], config,
                            "response", response)
    /\ TurnUnchanged

\* ctx.inject rejected: the error leaves injectMessage and processActivity.
AgentRejects ==
    /\ turn.pc = "inject"
    /\ turn' = [turn EXCEPT !.pc = "turnError", !.raised = TRUE]
    /\ TurnUnchanged

\* The command handler called ctx.reply(msg) and awaits it.
HandlerReplies(msg) ==
    /\ turn.pc = "handler"
    /\ turn.replies = 0
    /\ turn' = sendResponse([turn EXCEPT !.replies = @ + 1], config, "reply", msg)
    /\ TurnUnchanged

\* The command handler resolved with `result`: `await command.handler(...)`
\* discards the value, handleSlashCommand and the turn complete.
HandlerReturns(result) ==
    /\ turn.pc = "handler"
    /\ turn' = [turn EXCEPT !.pc = "done", !.result = result]
    /\ TurnUnchanged

\* The catch block of handleSlashCommand: the failure message is sent.
handleSlashCommandCatch_Rethrow(t, cfg) ==
    [t EXCEPT !.pc = "turnError", !.raised = TRUE]

handleSlashCommandCatch(t, cfg) ==
    sendResponse(t, cfg, "failure",
                 "Command /" \o t.command \o " failed. Please try again.")

\* The command handler rejected (an error of its own, or the rejection of a
\* ctx.reply it awaited).
HandlerThrows ==
    /\ turn.pc = "handler"
    /\ turn' = handleSlashCommandCatch([turn EXCEPT !.handlerRaised = TRUE], config)
    /\ TurnUnchanged

\* turnContext.sendActivity resolved inside withRetry.
SendResolves ==
    /\ turn.pc = "send"
    /\ turn.send.pc = "calling"
    /\ turn' = [turn EXCEPT !.send = withRetryResolve(@),
                            !.sent = Append(@, turn.payload),
                            !.pc = IF turn.send.op = "reply" THEN "handler"
                                   ELSE "done"]
    /\ TurnUnchanged

\* What follows an error raised by sendResponse, by the purpose of the send:
\* a failed ctx.reply rejects inside the command handler, which goes on
\* (it may resolve or reject in turn); the other two sends have nothing
\* around them and the error leaves processActivity.
afterSendThrown_Swallow(t, cfg) ==
    IF t.send.op = "reply"
    THEN [t EXCEPT !.pc = "handler"]
    ELSE [t EXCEPT !.pc = "done"]

afterSendThrown(t, cfg) ==
    IF t.send.op = "reply"
    THEN [t EXCEPT !.pc = "handler"]
    ELSE [t EXCEPT !.pc = "turnError", !.raised = TRUE]

\* turnContext.sendActivity rejected with err inside withRetry.
SendRejects(err, jitter) ==
    /\ turn.pc = "send"
    /\ turn.send.pc = "calling"
    /\ jitter \in RetryJitters(turn.send)
    /\ LET r == withRetryCatch(turn.send, err, jitter)
           t == [turn EXCEPT !.send = r]
       IN  turn' = IF r.pc = "thrown" THEN afterSendThrown(t, config) ELSE t
    /\ TurnUnchanged

\* The backoff timer of the send fired.
SendTimer_Reinject ==
    /\ turn.pc = "send"
    /\ turn.send.pc = "waiting"
    /\ LET r == withRetryTimer(turn.send)
           t == [turn EXCEPT !.send = r]
       IN  turn' = IF r.pc = "thrown" THEN afterSendThrown(t, config)
                   ELSE [t EXCEPT !.sendAttempts = @ + 1,
                                  !.injects = IF r.op = "response" THEN @ + 1 ELSE @,
                                  !.handlerCalls = IF r.op = "response" THEN @ ELSE @ + 1]
    /\ TurnUnchanged

SendTimer ==
    /\ turn.pc = "send"
    /\ turn.send.pc = "waiting"
    /\ LET r == withRetryTimer(turn.send)
           t == [turn EXCEPT !.send = r]
       IN  turn' = IF r.pc = "thrown" THEN afterSendThrown(t, config)
                   ELSE [t EXCEPT !.sendAttempts = @ + 1]
    /\ TurnUnchanged

\* adapter.onTurnError: logs and sends the apology, outside withRetry.
OnTurnError(delivered) ==
    /\ turn.pc = "turnError"
    /\ turn' = [turn EXCEPT
                  !.pc = "done",
                  !.sendAttempts = @ + 1,
                  !.sent = IF delivered
                           THEN Append(@, [kind |-> "text",
                                           text |-> "Sorry, something went wrong!",
                                           replyToId |-> Undefined])
                           ELSE @]
    /\ TurnUnchanged

\* adapter.process returned and handleWebhook with it: the turn is over.
TurnEnds ==
    /\ turn.pc = "done"
    /\ turn' = IdleTurn
    /\ TurnUnchanged

\* ------------------------------------------------------------------------
\* The pipeline specification
\* ------------------------------------------------------------------------

\* Allow-list pairs <<allowFrom, groupAllowFrom>> of the pipeline
\* configurations (the policy specification explores every combination).
ListPairs ==
    { <<None, None>>, <<Some(<<"u1">>), None>>, <<Some(<<"*">>), Some(<<"u2">>)>> }

Credentialed(cfg) ==
    [cfg EXCEPT !.appId = "app", !.appPassword = "secret", !.tenantId = "tenant"]

PipelineConfigs ==
    { Credentialed([EmptyConfig EXCEPT
          !.dmPolicy = dm, !.groupPolicy = gp,
          !.allowFrom = lp[1], !.groupAllowFrom = lp[2],
          !.requireMention = rm,
          !.maxRetries = Some(1), !.retryBaseDelayMs = Some(1)]) :
        dm \in DmPolicies, gp \in GroupPolicies, lp \in ListPairs,
        rm \in {None, Some(TRUE), Some(FALSE)} }
    \cup {EmptyConfig}

SendErrors == { e \in Errors : e.name \in {"e429", "e400", "network"} }

Init ==
    /\ ctx = FALSE
    /\ config = EmptyConfig
    /\ adapter = FALSE
    /\ conversationReferences = [c \in ConvIds |-> None]
    /\ pluginState = EmptyPluginState
    /\ registeredCommands = <<>>
    /\ commandHandlers = <<>>
    /\ registeredParsers = {}
    /\ turn = IdleTurn
    /\ retry = IdleRetry
    /\ hostRegistrations = {}
    /\ env = NoEnv
    /\ logger = FALSE
    /\ probe = [fn |-> "none"]

\* One webhook turn is in flight at a time.  The lifecycle calls and the
\* command registry calls are taken between turns: the registry is read only
\* by the synchronous part of processActivity.
Next ==
    \/ \E cfg \in PipelineConfigs : TurnFree /\ PluginInit(cfg) /\ UNCHANGED probe
    \/ TurnFree /\ PluginShutdown /\ UNCHANGED probe
    \/ TurnFree /\ RegisterCommand("status") /\ UNCHANGED probe
    \/ TurnFree /\ UnregisterCommand("status") /\ UNCHANGED probe
    \/ \E a \in Activities : HandleWebhook(a)
    \/ \E response \in AgentReplies : AgentResolves(response)
    \/ AgentRejects
    \/ HandlerReplies("pong")
    \/ \E result \in HandlerResults : HandlerReturns(result)
    \/ HandlerThrows
    \/ SendResolves
    \/ \E err \in SendErrors, jitter \in 0..1 : SendRejects(err, jitter)
    \/ SendTimer
    \/ \E delivered \in BOOLEAN : OnTurnError(delivered)
    \/ TurnEnds

Spec == Init /\ [][Next]_vars

\* ------------------------------------------------------------------------
\* URL parsing (the WHATWG URL parser behind `new URL(url)`)
\* ------------------------------------------------------------------------
\* The part of the parser that decides protocol and hostname, for URLs made
\* of ASCII letters, digits and the punctuation  : / \ ? # @ . - + .
\* Not covered: IPv4/IPv6 literals, percent-encoding, IDNA, leading or
\* trailing whitespace, relative references (there is no base URL).

LowerLetters == {"a","b","c","d","e","f","g","h","i","j","k","l","m",
                 "n","o","p","q","r","s","t","u","v","w","x","y","z"}
UpperLetters == {"A","B","C","D","E","F","G","H","I","J","K","L","M",
                 "N","O","P","Q","R","S","T","U","V","W","X","Y","Z"}
Digits == {"0","1","2","3","4","5","6","7","8","9"}

ToLowerChar(c) ==
    CASE c = "A" -> "a" [] c = "B" -> "b" [] c = "C" -> "c" [] c = "D" -> "d"
      [] c = "E" -> "e" [] c = "F" -> "f" [] c = "G" -> "g" [] c = "H" -> "h"
      [] c = "I" -> "i" [] c = "J" -> "j" [] c = "K" -> "k" [] c = "L" -> "l"
      [] c = "M" -> "m" [] c = "N" -> "n" [] c = "O" -> "o" [] c = "P" -> "p"
      [] c = "Q" -> "q" [] c = "R" -> "r" [] c = "S" -> "s" [] c = "T" -> "t"
      [] c = "U" -> "u" [] c = "V" -> "v" [] c = "W" -> "w" [] c = "X" -> "x"
      [] c = "Y" -> "y" [] c = "Z" -> "z"
      [] OTHER -> c

RECURSIVE ToLowerCase(_)
ToLowerCase(s) ==
    IF Len(s) = 0 THEN ""
    ELSE ToLowerChar(CharAt(s, 1)) \o ToLowerCase(Slice(s, 1))

\* Index of the first character of s that is in C, 0 if there is none.
FirstIndexIn(s, C) ==
    LET I == { i \in 1..Len(s) : CharAt(s, i) \in C }
    IN  IF I = {} THEN 0 ELSE CHOOSE i \in I : \A j \in I : i <= j

\* Index of the last character of s that is in C, 0 if there is none.
LastIndexIn(s, C) ==
    LET I == { i \in 1..Len(s) : CharAt(s, i) \in C }
    IN  IF I = {} THEN 0 ELSE CHOOSE i \in I : \A j \in I : i >= j

RECURSIVE SkipSlashes(_)
SkipSlashes(s) ==
    IF Len(s) > 0 /\ CharAt(s, 1) \in {"/", "\\"} THEN SkipSlashes(Slice(s, 1))
    ELSE s

SpecialSchemes == {"http", "https", "ftp", "ws", "wss"}

ForbiddenHostChars == {" ", "#", "/", ":", "<", ">", "?", "@", "[", "\\", "]", "^", "|", "%"}

URLFailure == [ok |-> FALSE, protocol |-> "", hostname |-> ""]

\* Authority of a special URL: credentials up to the last "@", then
\* hostname, then an optional ":" port of digits.
parseAuthority(scheme, authority) ==
    LET at == LastIndexIn(authority, {"@"})
        hostport == Slice(authority, at)
        colon == FirstIndexIn(hostport, {":"})
        host == IF colon = 0 THEN hostport ELSE SubSeq(hostport, 1, colon - 1)
        port == IF colon = 0 THEN "" ELSE Slice(hostport, colon)
    IN  IF Len(host) = 0 THEN URLFailure
        ELSE IF \E i \in 1..Len(host) : CharAt(host, i) \in ForbiddenHostChars
             THEN URLFailure
        ELSE IF \E i \in 1..Len(port) : CharAt(port, i) \notin Digits
             THEN URLFailure
        ELSE [ok |-> TRUE, protocol |-> scheme \o ":",
              hostname |-> ToLowerCase(host)]

\* new URL(url): ok = FALSE when the constructor throws.
parseURL(url) ==
    LET colon == FirstIndexIn(url, {":"})
        schemeRaw == SubSeq(url, 1, colon - 1)
        schemeOk ==
            /\ colon > 1
            /\ CharAt(schemeRaw, 1) \in LowerLetters \cup UpperLetters
            /\ \A i \in 1..Len(schemeRaw) :
                 CharAt(schemeRaw, i) \in
                   LowerLetters \cup UpperLetters \cup Digits \cup {"+", "-", "."}
        scheme == ToLowerCase(schemeRaw)
        rest == SkipSlashes(Slice(url, colon))
        stop == FirstIndexIn(rest, {"/", "\\", "?", "#"})
        authority == IF stop = 0 THEN rest ELSE SubSeq(rest, 1, stop - 1)
    IN  IF ~schemeOk THEN URLFailure
        ELSE IF scheme \in SpecialSchemes THEN parseAuthority(scheme, authority)
        ELSE [ok |-> TRUE, protocol |-> scheme \o ":", hostname |-> ""]

\* ------------------------------------------------------------------------
\* File attachment handling: the download guard
\* ------------------------------------------------------------------------

ALLOWED_DOWNLOAD_HOST_SUFFIXES ==
    <<".botframework.com", ".teams.microsoft.com", ".skype.com">>

\* String.prototype.includes
StrIncludes(s, sub) ==
    \E i \in 1..(Len(s) - Len(sub) + 1) : SubSeq(s, i, i + Len(sub) - 1) = sub

isAllowedDownloadHost_Substring(url) ==
    LET parsed == parseURL(url)
    IN  IF ~parsed.ok THEN FALSE
        ELSE IF parsed.protocol /= "https:" THEN FALSE
        ELSE \E k \in 1..Len(ALLOWED_DOWNLOAD_HOST_SUFFIXES) :
               StrIncludes(parsed.hostname, Slice(ALLOWED_DOWNLOAD_HOST_SUFFIXES[k], 1))

isAllowedDownloadHost(url) ==
    LET parsed == parseURL(url)
    IN  IF ~parsed.ok THEN FALSE
        ELSE IF parsed.protocol /= "https:" THEN FALSE
        ELSE \E k \in 1..Len(ALLOWED_DOWNLOAD_HOST_SUFFIXES) :
               \/ parsed.hostname = Slice(ALLOWED_DOWNLOAD_HOST_SUFFIXES[k], 1)
               \/ EndsWith(parsed.hostname, ALLOWED_DOWNLOAD_HOST_SUFFIXES[k])

\* An attachment of an activity; only contentUrl decides the download.
Attachment(contentUrl) ==
    [contentUrl |-> contentUrl, name |-> "report.pdf",
     contentType |-> "application/pdf"]

\* The checks of downloadAttachment before withRetry: "null" when it returns
\* null, "fetch" when it goes on to the download.
downloadGate_NoHostCheck(attachments, attachmentIndex) ==
    IF ~IsSome(attachments) \/ attachmentIndex >= Len(Val(attachments))
    THEN "null"
    ELSE IF ~Truthy(Val(attachments)[attachmentIndex + 1].contentUrl) THEN "null"
    ELSE "fetch"

downloadGate(attachments, attachmentIndex) ==
    IF ~IsSome(attachments) \/ attachmentIndex >= Len(Val(attachments))
    THEN "null"
    ELSE IF ~Truthy(Val(attachments)[attachmentIndex + 1].contentUrl) THEN "null"
    ELSE IF ~isAllowedDownloadHost(Val(attachments)[attachmentIndex + 1].contentUrl)
         THEN "null"
    ELSE "fetch"

\* ------------------------------------------------------------------------
\* Specification of the access policy engine alone
\* ------------------------------------------------------------------------

PolicyConfigs ==
    { [EmptyConfig EXCEPT !.dmPolicy = dm, !.groupPolicy = gp,
                          !.allowFrom = al, !.groupAllowFrom = gl] :
        dm \in DmPolicies, gp \in GroupPolicies,
        al \in AllowLists, gl \in GroupAllowLists }

PolicySenders == {"u1", "u2", "u3"}
PolicyKinds == {"personal", "channel", "groupChat"}

InitPolicy ==
    /\ ctx = FALSE
    /\ config \in PolicyConfigs
    /\ adapter = FALSE
    /\ conversationReferences = [c \in ConvIds |-> None]
    /\ pluginState = EmptyPluginState
    /\ registeredCommands = <<>>
    /\ commandHandlers = <<>>
    /\ registeredParsers = {}
    /\ turn = IdleTurn
    /\ retry = IdleRetry
    /\ hostRegistrations = {}
    /\ env = NoEnv
    /\ logger = FALSE
    /\ probe = [fn |-> "none"]

\* isAllowed(userId, conversationType) under the loaded configuration.
Decide(userId, conversationType) ==
    /\ probe' = [fn |-> "isAllowed", userId |-> userId,
                 conversationType |-> conversationType,
                 allowed |-> isAllowed(config, userId, conversationType)]
    /\ UNCHANGED <<ctx, config, adapter, conversationReferences, pluginState,
                   registeredCommands, commandHandlers, registeredParsers,
                   turn, retry, hostRegistrations, env, logger>>

NextPolicy == \E u \in PolicySenders, k \in PolicyKinds : Decide(u, k)

SpecPolicy == InitPolicy /\ [][NextPolicy]_vars

\* ------------------------------------------------------------------------
\* Specification of the retry executor alone
\* ------------------------------------------------------------------------

RetryConfigs ==
    { [EmptyConfig EXCEPT !.maxRetries = m, !.retryBaseDelayMs = Some(b)] :
        m \in {None, Some(1)}, b \in 0..MaxBaseDelay }

MaxRetriesOptions == {None} \cup { Some(k) : k \in (-2)..MaxRetriesBound }
BaseDelayOptions == {None} \cup { Some(b) : b \in 0..MaxBaseDelay }

InitRetry ==
    /\ ctx = FALSE
    /\ config \in RetryConfigs
    /\ adapter = FALSE
    /\ conversationReferences = [c \in ConvIds |-> None]
    /\ pluginState = EmptyPluginState
    /\ registeredCommands = <<>>
    /\ commandHandlers = <<>>
    /\ registeredParsers = {}
    /\ turn = IdleTurn
    /\ retry = IdleRetry
    /\ hostRegistrations = {}
    /\ env = NoEnv
    /\ logger = FALSE
    /\ probe = [fn |-> "none"]

RetryFree == retry.pc \in {"idle", "returned", "thrown"}

RetryUnchanged == UNCHANGED <<ctx, config, adapter, conversationReferences,
                              pluginState, registeredCommands,
                              commandHandlers, registeredParsers, turn,
                              hostRegistrations, env, logger>>

\* What a settled download leaves as the result of downloadAttachment.
settle(p, r) ==
    IF r.op /= "download" THEN p
    ELSE IF r.pc = "returned" THEN [p EXCEPT !.result = "file"]
    ELSE IF r.pc = "thrown" THEN [p EXCEPT !.result = "thrown"]
    ELSE p

\* withRetry(fn, { maxRetries, baseDelayMs }) called directly.
CallWithRetry(optMaxRetries, optBaseDelayMs) ==
    /\ RetryFree
    /\ retry' = withRetryEnter("fn", resolveMaxRetries(optMaxRetries, config),
                               resolveBaseDelayMs(optBaseDelayMs, config))
    /\ probe' = [fn |-> "withRetry"]
    /\ RetryUnchanged

\* The operation passed to withRetry resolved.
FnResolves ==
    /\ retry.pc = "calling"
    /\ retry' = withRetryResolve(retry)
    /\ probe' = settle(probe, retry')
    /\ RetryUnchanged

\* The operation passed to withRetry rejected with err.
FnRejects(err, jitter) ==
    /\ retry.pc = "calling"
    /\ jitter \in RetryJitters(retry)
    /\ retry' = withRetryCatch(retry, err, jitter)
    /\ probe' = settle(probe, retry')
    /\ RetryUnchanged

\* The backoff timer of withRetry fired.
RetryTimer ==
    /\ retry.pc = "waiting"
    /\ retry' = withRetryTimer(retry)
    /\ probe' = settle(probe, retry')
    /\ RetryUnchanged

\* Largest jitter value any explored wait can draw.
MaxJitter == MaxBaseDelay * Pow2(Max(MaxRetriesBound, 3))

NextRetry ==
    \/ \E m \in MaxRetriesOptions, b \in BaseDelayOptions : CallWithRetry(m, b)
    \/ FnResolves
    \/ \E err \in Errors, jitter \in 0..MaxJitter : FnRejects(err, jitter)
    \/ RetryTimer

SpecRetry == InitRetry /\ [][NextRetry]_vars

\* ------------------------------------------------------------------------
\* Specification of the attachment download
\* ------------------------------------------------------------------------

UrlSchemes == {"https://", "http://", "HTTPS://", "ftp://", "https:", ""}
UrlHosts ==
    { "botframework.com", "media.botframework.com", "teams.microsoft.com",
      "attachments.teams.microsoft.com", "skype.com", "us-api.asm.skype.com",
      "evil.com", "attacker.com", "evilskype.com", "notbotframework.com",
      "faketeams.microsoft.com.evil.com", "SKYPE.COM", "skype.com.",
      "microsoft.com", "skype.com:8443", "skype.com@evil.com",
      "evil.com@skype.com", "" }
UrlPaths == {"", "/x", "/fake.botframework.com", "?next=.skype.com"}

Urls == { sch \o h \o pa : sch \in UrlSchemes, h \in UrlHosts, pa \in UrlPaths }
        \cup {"not-a-url"}

GuardConfig == [EmptyConfig EXCEPT !.maxRetries = Some(1),
                                   !.retryBaseDelayMs = Some(1)]

\* The arguments the download specification starts from: a URL for
\* isAllowedDownloadHost and an attachment list and index for
\* downloadAttachment.
GuardInputs ==
    { [fn |-> "input", url |-> u, attachments |-> Some(<<Attachment(u)>>),
       attachmentIndex |-> i, allowed |-> FALSE, result |-> "none"] :
        u \in Urls, i \in 0..1 }
    \cup
    { [fn |-> "input", url |-> "", attachments |-> atts,
       attachmentIndex |-> i, allowed |-> FALSE, result |-> "none"] :
        atts \in { None, Some(<<>>), Some(<<Attachment(Undefined)>>),
                   Some(<<Attachment("")>>),
                   Some(<<Attachment("https://evil.com/x"),
                          Attachment("https://media.botframework.com/x")>>),
                   Some(<<Attachment("https://skype.com/x"),
                          Attachment("https://evilskype.com/x")>>) },
        i \in 0..1 }

InitGuard ==
    /\ ctx = FALSE
    /\ config = GuardConfig
    /\ adapter = FALSE
    /\ conversationReferences = [c \in ConvIds |-> None]
    /\ pluginState = EmptyPluginState
    /\ registeredCommands = <<>>
    /\ commandHandlers = <<>>
    /\ registeredParsers = {}
    /\ turn = IdleTurn
    /\ retry = IdleRetry
    /\ hostRegistrations = {}
    /\ env = NoEnv
    /\ logger = FALSE
    /\ probe \in GuardInputs

\* isAllowedDownloadHost(url)
CheckHost ==
    /\ probe.fn = "input"
    /\ probe' = [probe EXCEPT !.fn = "isAllowedDownloadHost",
                              !.allowed = isAllowedDownloadHost(probe.url)]
    /\ UNCHANGED retry
    /\ RetryUnchanged

\* downloadAttachment(activity, attachmentIndex) up to its first suspension:
\* either it returns null, or withRetry is entered and axios.get called.
DownloadAttachment ==
    /\ probe.fn \in {"input", "isAllowedDownloadHost"}
    /\ LET gate == downloadGate(probe.attachments, probe.attachmentIndex)
           p == [probe EXCEPT !.fn = "downloadAttachment", !.result = "pending"]
       IN  IF gate = "null"
           THEN /\ probe' = [p EXCEPT !.result = "null"]
                /\ retry' = IdleRetry
           ELSE /\ retry' = withRetryEnter("download",
                                           resolveMaxRetries(None, config),
                                           resolveBaseDelayMs(None, config))
                /\ probe' = settle(p, retry')
    /\ RetryUnchanged

NextGuard ==
    \/ CheckHost
    \/ DownloadAttachment
    \/ FnResolves
    \/ \E err \in SendErrors, jitter \in 0..MaxJitter : FnRejects(err, jitter)
    \/ RetryTimer

SpecGuard == InitGuard /\ [][NextGuard]_vars

\* ------------------------------------------------------------------------
\* Specification of the command router alone
\* ------------------------------------------------------------------------

MatchNames == {"stat", "status", "help"}

MatchTexts ==
    { "/status", "/status now", "/status  deploy  now ", "  /status now ",
      "\t/status\n", "/statusbar check", "/statusbar", "/stat", "/stats",
      "/status\tnow", "/status/now", "/STATUS", "status", "status now",
      "hello /status", "/ status", "/", "", "   ", "/help deploy commands",
      "/help", "just chatting" }

InitMatch ==
    /\ ctx = FALSE
    /\ config = EmptyConfig
    /\ adapter = FALSE
    /\ conversationReferences = [c \in ConvIds |-> None]
    /\ pluginState = EmptyPluginState
    /\ registeredCommands = <<>>
    /\ commandHandlers = <<>>
    /\ registeredParsers = {}
    /\ turn = IdleTurn
    /\ retry = IdleRetry
    /\ hostRegistrations = {}
    /\ env = NoEnv
    /\ logger = FALSE
    /\ probe = [fn |-> "none"]

\* matchSlashCommand(text) against the current registry.
MatchCommand(text) ==
    /\ probe' = [fn |-> "matchSlashCommand", text |-> text,
                 result |-> matchSlashCommand(text, registeredCommands)]
    /\ UNCHANGED <<ctx, config, adapter, conversationReferences, pluginState,
                   registeredCommands, commandHandlers, registeredParsers,
                   turn, retry, hostRegistrations, env, logger>>

NextMatch ==
    \/ \E n \in MatchNames :
         RegisterCommand(n) /\ probe' = [fn |-> "registerCommand", name |-> n]
    \/ \E n \in MatchNames :
         UnregisterCommand(n) /\ probe' = [fn |-> "unregisterCommand", name |-> n]
    \/ \E text \in MatchTexts : MatchCommand(text)

SpecMatch == InitMatch /\ [][NextMatch]_vars

\* ------------------------------------------------------------------------
\* Proactive messaging
\* ------------------------------------------------------------------------

\* conversationReferences.get(key): None when the map has no such key.
refGet(refs, key) == IF key \in DOMAIN refs THEN refs[key] ELSE None

\* `if (!ref || !adapter) return` of the two proactive sends, negated.
proactiveGate_NoRefCheck(refs, adpt, key) == adpt

proactiveGate(refs, adpt, key) == IsSome(refGet(refs, key)) /\ adpt

\* The error of `adapter!.continueConversationAsync` on a null adapter.
TypeError == Err("TypeError", None, None, Undefined)

\* A proactive send up to its first suspension.  The observation records the
\* reference the call read, the calls of adapter.continueConversationAsync
\* it made (transportCalls) and what was delivered.
ProactiveStart(fn, key, content) ==
    /\ RetryFree
    /\ LET ref == refGet(conversationReferences, key)
           p == [fn |-> fn, channel |-> key, content |-> content, ref |-> ref,
                 hadAdapter |-> adapter,
                 result |-> "returned", transportCalls |-> 0, delivered |-> <<>>]
           r == withRetryEnter("proactive", resolveMaxRetries(None, config),
                               resolveBaseDelayMs(None, config))
       IN  IF ~proactiveGate(conversationReferences, adapter, key)
           THEN /\ retry' = IdleRetry
                /\ probe' = p
           ELSE /\ retry' = r
                /\ probe' = IF r.pc = "calling"
                            THEN [p EXCEPT !.result = "pending", !.transportCalls = 1]
                            ELSE [p EXCEPT !.result = "thrown"]
    /\ RetryUnchanged

\* msteamsChannelProvider.send(channel, content)
ProviderSend(channel, content) == ProactiveStart("send", channel, content)

\* msteamsExtension.sendAdaptiveCard(conversationId, options)
SendAdaptiveCard(conversationId, options) ==
    ProactiveStart("sendAdaptiveCard", conversationId, options)

\* The payload the continueConversationAsync callback sends.
proactivePayload(cfg, p) ==
    [kind |-> IF p.fn = "sendAdaptiveCard" THEN "card"
              ELSE IF ~(IsSome(cfg.useAdaptiveCards) /\ Val(cfg.useAdaptiveCards) = FALSE)
              THEN "card" ELSE "text",
     text |-> p.content]

\* continueConversationAsync resolved: the callback's sendActivity went out.
ProactiveResolves ==
    /\ retry.op = "proactive"
    /\ retry.pc = "calling"
    /\ retry' = withRetryResolve(retry)
    /\ probe' = [probe EXCEPT !.result = "returned",
                              !.delivered = Append(@, proactivePayload(config, probe))]
    /\ RetryUnchanged

\* continueConversationAsync rejected with err.
ProactiveRejects(err, jitter) ==
    /\ retry.op = "proactive"
    /\ retry.pc = "calling"
    /\ jitter \in RetryJitters(retry)
    /\ retry' = withRetryCatch(retry, err, jitter)
    /\ probe' = IF retry'.pc = "thrown" THEN [probe EXCEPT !.result = "thrown"]
                ELSE probe
    /\ RetryUnchanged

\* The backoff timer of a proactive send fired.  The next attempt reads the
\* module-level adapter again: after a shutdown it is null and the attempt
\* ends in a TypeError before any transport call.
ProactiveTimer ==
    /\ retry.op = "proactive"
    /\ retry.pc = "waiting"
    /\ LET r == withRetryTimer(retry)
       IN  IF r.pc = "calling" /\ ~adapter
           THEN /\ retry' = withRetryCatch(r, TypeError, 0)
                /\ probe' = [probe EXCEPT !.result = "thrown"]
           ELSE /\ retry' = r
                /\ probe' = IF r.pc = "calling"
                            THEN [probe EXCEPT !.transportCalls = @ + 1]
                            ELSE [probe EXCEPT !.result = "thrown"]
    /\ RetryUnchanged

\* ------------------------------------------------------------------------
\* Specification of plugin.init alone
\* ------------------------------------------------------------------------

\* A credential as configured: absent, empty, blank or present.
CredentialValues == {Undefined, "", "  ", "id"}

\* Configurations of init: every combination of the three credentials.
InitConfigs ==
    { [EmptyConfig EXCEPT !.appId = a, !.appPassword = pw, !.tenantId = t] :
        a \in CredentialValues, pw \in CredentialValues, t \in CredentialValues }

InitEnvs ==
    { NoEnv,
      [MSTEAMS_APP_ID |-> "env-id", MSTEAMS_APP_PASSWORD |-> "env-pw",
       MSTEAMS_TENANT_ID |-> "env-tenant"],
      [MSTEAMS_APP_ID |-> "env-id", MSTEAMS_APP_PASSWORD |-> Undefined,
       MSTEAMS_TENANT_ID |-> ""],
      [MSTEAMS_APP_ID |-> " ", MSTEAMS_APP_PASSWORD |-> "env-pw",
       MSTEAMS_TENANT_ID |-> "\t"] }

InitInit ==
    /\ ctx = FALSE
    /\ config = EmptyConfig
    /\ adapter = FALSE
    /\ conversationReferences = [c \in ConvIds |-> None]
    /\ pluginState = EmptyPluginState
    /\ registeredCommands = <<>>
    /\ commandHandlers = <<>>
    /\ registeredParsers = {}
    /\ turn = IdleTurn
    /\ retry = IdleRetry
    /\ hostRegistrations = {}
    /\ env \in InitEnvs
    /\ logger = FALSE
    /\ probe = [fn |-> "none"]

\* What a call of init leaves to observe: how it ended, whether an adapter
\* existed before the call, and the settings the adapter it created was
\* constructed with (None when it created none).
initObserved(cfg) ==
    [fn |-> "init", outcome |-> initOutcome(cfg, env), adapterBefore |-> adapter,
     authConfig |-> IF initOutcome(cfg, env).how = "ready"
                    THEN initAdapter(cfg, env) ELSE None]

NextInit ==
    \/ \E cfg \in InitConfigs : PluginInit(cfg) /\ probe' = initObserved(cfg)
    \/ PluginShutdown /\ probe' = [fn |-> "shutdown"]

SpecInit == InitInit /\ [][NextInit]_vars

\* ------------------------------------------------------------------------
\* Specification of the lifecycle: init, inbound activities, proactive
\* sends, shutdown
\* ------------------------------------------------------------------------

LifecycleConfig ==
    Credentialed([EmptyConfig EXCEPT !.dmPolicy = "open",
                                     !.maxRetries = Some(1),
                                     !.retryBaseDelayMs = Some(1)])

LifecycleConfigs == {LifecycleConfig, EmptyConfig}

\* A personal message that is routed to the agent, and a non-message
\* activity of another conversation.
LifecycleActivities ==
    { Activity("message", "u1", "hello", "c1", "personal", None, "m1"),
      Activity("conversationUpdate", "u1", "", "c2", "channel", None, "m2") }

\* Keys the proactive sends are called with: a conversation id, and the
\* channel id the pipeline reports to the agent for it.
ProactiveKeys == {"c1", "c2", "msteams:c1"}

InitLifecycle ==
    /\ ctx = FALSE
    /\ config = EmptyConfig
    /\ adapter = FALSE
    /\ conversationReferences = [c \in ConvIds |-> None]
    /\ pluginState = EmptyPluginState
    /\ registeredCommands = <<>>
    /\ commandHandlers = <<>>
    /\ registeredParsers = {}
    /\ turn = IdleTurn
    /\ retry = IdleRetry
    /\ hostRegistrations = {}
    /\ env = NoEnv
    /\ logger = FALSE
    /\ probe = [fn |-> "none"]

\* Inbound turns and proactive sends are taken one at a time; the lifecycle
\* and registry calls are taken between turns, also while a proactive send
\* waits for its transport call or its backoff timer.
NextLifecycle ==
    \/ \E cfg \in LifecycleConfigs :
         TurnFree /\ PluginInit(cfg) /\ probe' = initObserved(cfg)
    \/ TurnFree /\ RetryFree /\ PluginShutdown /\ probe' = [fn |-> "shutdown"]
    \/ TurnFree /\ ~RetryFree /\ PluginShutdown /\ UNCHANGED probe
    \/ TurnFree /\ RetryFree /\ RegisterCommand("status")
         /\ probe' = [fn |-> "registerCommand"]
    \/ TurnFree /\ RetryFree /\ AddMessageParser("p1")
         /\ probe' = [fn |-> "addMessageParser"]
    \/ \E a \in LifecycleActivities : RetryFree /\ HandleWebhook(a)
    \/ \E response \in AgentReplies : AgentResolves(response)
    \/ SendResolves
    \/ TurnEnds
    \/ \E key \in ProactiveKeys : TurnFree /\ ProviderSend(key, "ping")
    \/ \E key \in ProactiveKeys : TurnFree /\ SendAdaptiveCard(key, "card")
    \/ ProactiveResolves
    \/ \E err \in SendErrors, jitter \in 0..1 : ProactiveRejects(err, jitter)
    \/ ProactiveTimer

SpecLifecycle == InitLifecycle /\ [][NextLifecycle]_vars

\* ------------------------------------------------------------------------
\* Specification of the replies: reply style and reply mode
\* ------------------------------------------------------------------------

ReplyStyles == {Undefined, "thread", "top-level"}
CardModes == {None, Some(TRUE), Some(FALSE)}

ReplyConfigs ==
    { Credentialed([EmptyConfig EXCEPT !.dmPolicy = "open",
                                       !.replyStyle = rs,
                                       !.useAdaptiveCards = uc,
                                       !.maxRetries = Some(1),
                                       !.retryBaseDelayMs = Some(1)]) :
        rs \in ReplyStyles, uc \in CardModes }

\* Personal messages with an id, with an empty id and without one, going to
\* the agent or to the command `status`, and one from a sender without a
\* display name.
ReplyActivities ==
    { Activity("message", "u1", tx, "c1", "personal", None, id) :
        tx \in {"hello", "/status now"}, id \in {"m1", "", Undefined} }
    \cup
    { [Activity("message", "u1", "hello", "c2", "personal", None, "m2")
         EXCEPT !.fromName = Undefined] }

\* What ctx.inject resolves with.
ReplyTexts == {"reply", "Bot says hello"}

InitReply ==
    /\ ctx = FALSE
    /\ config = EmptyConfig
    /\ adapter = FALSE
    /\ conversationReferences = [c \in ConvIds |-> None]
    /\ pluginState = EmptyPluginState
    /\ registeredCommands = <<>>
    /\ commandHandlers = <<>>
    /\ registeredParsers = {}
    /\ turn = IdleTurn
    /\ retry = IdleRetry
    /\ hostRegistrations = {}
    /\ env = NoEnv
    /\ logger = FALSE
    /\ probe = [fn |-> "none"]

NextReply ==
    \/ \E cfg \in ReplyConfigs : TurnFree /\ PluginInit(cfg) /\ UNCHANGED probe
    \/ TurnFree /\ RegisterCommand("status") /\ UNCHANGED probe
    \/ \E a \in ReplyActivities : HandleWebhook(a)
    \/ \E response \in ReplyTexts : AgentResolves(response)
    \/ HandlerReplies("pong")
    \/ \E result \in HandlerResults : HandlerReturns(result)
    \/ HandlerThrows
    \/ SendResolves
    \/ \E err \in SendErrors, jitter \in 0..1 : SendRejects(err, jitter)
    \/ SendTimer
    \/ \E delivered \in BOOLEAN : OnTurnError(delivered)
    \/ TurnEnds

SpecReply == InitReply /\ [][NextReply]_vars

\* ------------------------------------------------------------------------
\* Specification of the reference store and the runtime counters
\* ------------------------------------------------------------------------

\* Policies that let a sender through, deny one sender and deny everyone,
\* with and without the mention requirement.
StoreConfigs ==
    { Credentialed([EmptyConfig EXCEPT !.dmPolicy = dm, !.groupPolicy = "open",
                                       !.allowFrom = Some(<<"u1">>),
                                       !.requireMention = rm]) :
        dm \in {"open", "allowlist", "disabled"},
        rm \in {None, Some(FALSE)} }

\* Activities of two conversations and without a conversation id, with
\* different message ids and without one.
StoreActivities ==
    { Activity(ty, f, "hello", c, ct, en, id) :
        ty \in {"message", "conversationUpdate"},
        f \in {"u1", "u2", BotId},
        c \in ConvIds \cup {Undefined},
        ct \in {"personal", "channel"},
        en \in {None, Some(<<Mention(BotId)>>)},
        id \in {"m1", "m2", Undefined} }

InitStore ==
    /\ ctx = FALSE
    /\ config = EmptyConfig
    /\ adapter = FALSE
    /\ conversationReferences = [c \in ConvIds |-> None]
    /\ pluginState = EmptyPluginState
    /\ registeredCommands = <<>>
    /\ commandHandlers = <<>>
    /\ registeredParsers = {}
    /\ turn = IdleTurn
    /\ retry = IdleRetry
    /\ hostRegistrations = {}
    /\ env = NoEnv
    /\ logger = FALSE
    /\ probe = [fn |-> "none"]

\* The store is written by the synchronous start of processActivity, so
\* the order of the webhook calls is the order of the writes however the
\* turns that follow them interleave.  It is read by the provider's send.
NextStore ==
    \/ \E cfg \in StoreConfigs : TurnFree /\ PluginInit(cfg) /\ UNCHANGED probe
    \/ \E a \in StoreActivities : HandleWebhook(a)
    \/ \E response \in AgentReplies : AgentResolves(response)
    \/ SendResolves
    \/ TurnEnds
    \/ \E key \in ConvIds : TurnFree /\ ProviderSend(key, "ping")
    \/ ProactiveResolves

SpecStore == InitStore /\ [][NextStore]_vars

\* ------------------------------------------------------------------------
\* Specification of the command registry and the dispatch
\* ------------------------------------------------------------------------

\* Two names that both match the text "/stat us", and two handlers.
RegistryNames == {"stat", "stat us"}
RegistryHandlers == {"h1", "h2"}

RegistryActivities ==
    { Activity("message", "u1", tx, "c1", "personal", None, "m1") :
        tx \in {"/stat us", "/stat", "/stat  us now", "/status", "hello"} }

InitRegistry ==
    /\ ctx = FALSE
    /\ config = EmptyConfig
    /\ adapter = FALSE
    /\ conversationReferences = [c \in ConvIds |-> None]
    /\ pluginState = EmptyPluginState
    /\ registeredCommands = <<>>
    /\ commandHandlers = <<>>
    /\ registeredParsers = {}
    /\ turn = IdleTurn
    /\ retry = IdleRetry
    /\ hostRegistrations = {}
    /\ env = NoEnv
    /\ logger = FALSE
    /\ probe = [fn |-> "none"]

\* The registry calls are observed: the last one, and whether the name it
\* registered was in the registry already.
NextRegistry ==
    \/ TurnFree /\ PluginInit(LifecycleConfig) /\ UNCHANGED probe
    \/ \E n \in RegistryNames, h \in RegistryHandlers :
         /\ TurnFree
         /\ RegisterCommandAs(n, h)
         /\ probe' = [fn |-> "registerCommand", name |-> n, handler |-> h,
                      replaced |-> Includes(registeredCommands, n)]
    \/ \E n \in RegistryNames :
         /\ TurnFree
         /\ UnregisterCommand(n)
         /\ probe' = [fn |-> "unregisterCommand", name |-> n]
    \/ \E a \in RegistryActivities : HandleWebhook(a)
    \/ \E response \in AgentReplies : AgentResolves(response)
    \/ \E result \in HandlerResults : HandlerReturns(result)
    \/ SendResolves
    \/ TurnEnds

SpecRegistry == InitRegistry /\ [][NextRegistry]_vars

\* ------------------------------------------------------------------------
\* Specification of parseRetryAfter alone
\* ------------------------------------------------------------------------

\* Retry-After values: absent, empty, seconds, other numbers, HTTP dates
\* and strings that are neither.
RetryAfterValues ==
    { Undefined, "", "120", "0", "5", "007", "1.5", "0.002", ".5", "5.",
      "+3", " 7 ", "-0", "-5", "-0.5", "   ", "abc", "12abc", "1.2.3", "-",
      ".", "5 seconds", "tomorrow",
      "Wed, 21 Oct 2015 07:28:00 GMT", "Wed, 21 Oct 2015 07:28:03 GMT",
      "Wed, 21 Oct 2015 07:27:55 GMT" }

\* Readings of Date.now(), in ms counted from the instant of DateParse.
ClockReadings == {-6000, -5000, 0, 2998, 3000, 4000}

InitParse ==
    /\ ctx = FALSE
    /\ config = EmptyConfig
    /\ adapter = FALSE
    /\ conversationReferences = [c \in ConvIds |-> None]
    /\ pluginState = EmptyPluginState
    /\ registeredCommands = <<>>
    /\ commandHandlers = <<>>
    /\ registeredParsers = {}
    /\ turn = IdleTurn
    /\ retry = IdleRetry
    /\ hostRegistrations = {}
    /\ env = NoEnv
    /\ logger = FALSE
    /\ probe = [fn |-> "none"]

\* parseRetryAfter(value) called while the clock reads `now`.
ParseRetryAfter(value, now) ==
    /\ probe' = [fn |-> "parseRetryAfter", value |-> value, now |-> now,
                 result |-> parseRetryAfter(value, now)]
    /\ UNCHANGED <<ctx, config, adapter, conversationReferences, pluginState,
                   registeredCommands, commandHandlers, registeredParsers,
                   turn, retry, hostRegistrations, env, logger>>

NextParse ==
    \E value \in RetryAfterValues, now \in ClockReadings :
        ParseRetryAfter(value, now)

SpecParse == InitParse /\ [][NextParse]_vars

\* ------------------------------------------------------------------------
\* Properties
\* ------------------------------------------------------------------------

\* The activity's entity list holds a mention whose target is the bot.
BotMentioned(a) ==
    a.entities /= None /\
    \E i \in 1..Len(a.entities[1]) :
        a.entities[1][i] = [type |-> "mention", mentioned |-> BotId]

\* C1: the agent (ctx.inject) is invoked for an activity only if isAllowed
\* answered allow for that activity's sender and conversation kind in the
\* same turn; a turn whose sender was denied never reaches the agent.
C1_InjectOnlyIfAllowed ==
    /\ turn.injects > 0 => turn.decision = "allow"
    /\ turn.decision = "deny" => (turn.injects = 0 /\ turn.injected = "")

C1_Witness ==
    /\ turn.injects = 1
    /\ turn.decision = "allow"
    /\ config.dmPolicy = "allowlist"
    /\ turn.activity.conversationType = "personal"
    /\ turn.activity.from = "u1"

\* C2: a channel or groupChat message is forwarded to the agent only if
\* requireMention is configured false or the entity list holds a mention of
\* the bot's own id; an allowed group message with no entity list at all is
\* suppressed and the turn ends without raising.
C2_MentionGate ==
    /\ (turn.injects > 0 /\ turn.activity.conversationType \in {"channel", "groupChat"})
         => (config.requireMention = Some(FALSE) \/ BotMentioned(turn.activity))
    /\ ( /\ turn.activity.type = "message"
         /\ turn.activity.conversationType \in {"channel", "groupChat"}
         /\ turn.decision = "allow"
         /\ config.requireMention /= Some(FALSE)
         /\ turn.activity.entities = None )
         => ( /\ turn.pc = "done"
              /\ turn.outcome = "suppressed"
              /\ turn.injects = 0
              /\ ~turn.raised )

C2_Witness ==
    /\ turn.injects = 1
    /\ turn.activity.conversationType = "channel"
    /\ config.requireMention = None
    /\ BotMentioned(turn.activity)

\* C3: an activity that ends policy-blocked or mention-suppressed produces no
\* outbound send (no reply, no error notice) and its turn completes without
\* raising.
C3_SilentWhenFiltered ==
    (turn.decision = "deny" \/ turn.mentionCheck = "notMentioned")
      => ( /\ turn.outcome \in {"blocked", "suppressed"}
           /\ turn.pc = "done"
           /\ turn.sendAttempts = 0
           /\ turn.sent = <<>>
           /\ ~turn.raised )

C3_Witness ==
    /\ turn.outcome = "blocked"
    /\ turn.pc = "done"
    /\ turn.activity.conversationType = "channel"
    /\ BotMentioned(turn.activity)
    /\ config.groupPolicy = "allowlist"
    /\ turn.activity.text = "/status now"
    /\ registeredCommands = <<"status">>

\* C4: an activity that is not a message, or whose sender is the bot itself,
\* never invokes the agent or a command handler and produces no outbound
\* send, under every policy configuration.
C4_NoLoopback ==
    (turn.activity.type /= "message" \/ turn.activity.from = turn.activity.recipient)
      => ( /\ turn.injects = 0
           /\ turn.handlerCalls = 0
           /\ turn.sendAttempts = 0
           /\ turn.sent = <<>> )

C4_Witness ==
    /\ turn.pc = "done"
    /\ turn.activity.type = "message"
    /\ turn.activity.from = BotId
    /\ turn.activity.text = "/status now"
    /\ config.dmPolicy = "open"
    /\ registeredCommands = <<"status">>

\* The status the claims read off an error: response.status, else statusCode.
ClaimRetryable(e) ==
    LET st == IF e.responseStatus /= None THEN e.responseStatus[1]
              ELSE IF e.statusCode /= None THEN e.statusCode[1]
              ELSE 0
    IN  st = 429 \/ st \in 500..599

\* C5: withRetry never invokes the operation more than maxRetries + 1 times
\* (no invocation at all when that number is not positive), and when every
\* attempt of an invocation with maxRetries = k >= 0 failed with a retryable
\* status it made exactly k + 1 attempts and raised the last attempt's error.
C5_AttemptBound ==
    /\ retry.calls <= (IF retry.maxRetries + 1 > 0 THEN retry.maxRetries + 1 ELSE 0)
    /\ ( /\ retry.pc = "thrown"
         /\ retry.maxRetries >= 0
         /\ \A i \in 1..Len(retry.errors) : ClaimRetryable(retry.errors[i]) )
         => ( /\ retry.calls = retry.maxRetries + 1
              /\ Len(retry.errors) = retry.calls
              /\ retry.thrown = retry.errors[Len(retry.errors)] )

C5_Witness ==
    /\ retry.pc = "thrown"
    /\ retry.maxRetries = 2
    /\ retry.calls = 3
    /\ Len(retry.errors) = 3
    /\ retry.errors[1].name = "e429"
    /\ retry.errors[2].name = "e500"
    /\ retry.thrown.name = "sc502"

\* C6: a failure is retried only when its status is 429 or 5xx: a call that
\* fails with any other status, or with no status, is the last call of the
\* invocation, its error is the one raised, and no wait was started for it
\* (so a first-call fatal failure means exactly one call and no wait).
C6_FatalNotRetried ==
    \A i \in 1..Len(retry.errors) :
        ~ClaimRetryable(retry.errors[i])
          => ( /\ i = Len(retry.errors)
               /\ retry.pc = "thrown"
               /\ retry.thrown = retry.errors[i]
               /\ retry.calls = i
               /\ retry.waits = i - 1 )

C6_Witness ==
    /\ retry.pc = "thrown"
    /\ retry.maxRetries = 2
    /\ retry.calls = 1
    /\ retry.waits = 0
    /\ retry.thrown.name = "e400sc500"

\* The attachment downloadAttachment selected, if any.
SelectedUrl ==
    IF probe.attachments /= None /\ probe.attachmentIndex < Len(probe.attachments[1])
    THEN probe.attachments[1][probe.attachmentIndex + 1].contentUrl
    ELSE Undefined

AllowedNames == {"botframework.com", "teams.microsoft.com", "skype.com"}

\* C8: isAllowedDownloadHost(url) is true exactly when the URL parses, its
\* scheme is https and its hostname is one of the three allowed names or
\* ends with "." followed by one of them; look-alike hosts and hosts that
\* carry an allowed name only in the path are rejected.
C8_HostAllowList ==
    probe.fn = "isAllowedDownloadHost"
      => ( /\ probe.allowed =
                ( /\ parseURL(probe.url).ok
                  /\ parseURL(probe.url).protocol = "https:"
                  /\ \E n \in AllowedNames :
                       \/ parseURL(probe.url).hostname = n
                       \/ EndsWith(parseURL(probe.url).hostname, "." \o n) )
           /\ probe.url \in { "https://media.botframework.com/x",
                              "https://skype.com/x" } => probe.allowed
           /\ probe.url \in { "http://media.botframework.com/x",
                              "https://evil.com/x",
                              "https://attacker.com/fake.botframework.com",
                              "https://evilskype.com/x",
                              "https://notbotframework.com/x",
                              "https://faketeams.microsoft.com.evil.com/x",
                              "not-a-url" } => ~probe.allowed )

C8_Witness ==
    /\ probe.fn = "isAllowedDownloadHost"
    /\ probe.url = "https://notbotframework.com/x"
    /\ ~probe.allowed

\* An allow-list (possibly absent) holds the sender id or the literal "*".
ListAllows(list, userId) ==
    list /= None /\ \E i \in 1..Len(list[1]) : list[1][i] \in {userId, "*"}

\* C9: for a personal conversation: dmPolicy open allows; disabled denies
\* whatever the sender and the allow-list; pairing, and an unset dmPolicy,
\* allow every sender; allowlist allows exactly the senders that allowFrom
\* holds, or everyone if it holds "*".
C9_DmDecision ==
    (probe.fn = "isAllowed" /\ probe.conversationType = "personal")
      => probe.allowed =
           CASE config.dmPolicy = "open" -> TRUE
             [] config.dmPolicy = "disabled" -> FALSE
             [] config.dmPolicy \in {"pairing", Undefined} -> TRUE
             [] config.dmPolicy = "allowlist" ->
                  ListAllows(config.allowFrom, probe.userId)

C9_Witness ==
    /\ probe.fn = "isAllowed"
    /\ probe.conversationType = "personal"
    /\ config.dmPolicy = "disabled"
    /\ config.allowFrom = Some(<<"*">>)
    /\ ~probe.allowed

\* C10: for a channel or groupChat conversation: groupPolicy open allows;
\* disabled denies whatever the sender and the lists; allowlist, and an unset
\* groupPolicy, allow exactly the senders the effective group allow-list
\* holds (groupAllowFrom when set, otherwise allowFrom), or everyone if it
\* holds "*"; the value of dmPolicy plays no part.
C10_GroupDecision ==
    (probe.fn = "isAllowed" /\ probe.conversationType \in {"channel", "groupChat"})
      => probe.allowed =
           CASE config.groupPolicy = "open" -> TRUE
             [] config.groupPolicy = "disabled" -> FALSE
             [] config.groupPolicy \in {"allowlist", Undefined} ->
                  ListAllows(IF config.groupAllowFrom /= None
                             THEN config.groupAllowFrom ELSE config.allowFrom,
                             probe.userId)

C10_Witness ==
    /\ probe.fn = "isAllowed"
    /\ probe.conversationType = "groupChat"
    /\ config.groupPolicy = Undefined
    /\ config.dmPolicy = "open"
    /\ config.groupAllowFrom = Some(<<"u2">>)
    /\ probe.userId = "u1"
    /\ ~probe.allowed

\* C11: under groupPolicy allowlist, when groupAllowFrom is unset or is the
\* empty list, a sender that allowFrom holds (or any sender when allowFrom
\* holds "*") is allowed in channel and groupChat conversations.
C11_GroupFallback ==
    ( /\ probe.fn = "isAllowed"
      /\ probe.conversationType \in {"channel", "groupChat"}
      /\ config.groupPolicy = "allowlist"
      /\ config.groupAllowFrom \in {None, Some(<<>>)}
      /\ ListAllows(config.allowFrom, probe.userId) )
      => probe.allowed

\* The claim's matching rule for a name n and a text t: the trimmed text is
\* "/" followed by n, alone or followed by a space.
SlashRule(n, t) ==
    LET tt == Trim(t)
        p == "/" \o n
    IN  tt = p \/ (Len(tt) > Len(p) /\ SubSeq(tt, 1, Len(p) + 1) = p \o " ")

\* C16: matchSlashCommand matches a registered name n for a text t exactly
\* when trim(t) is "/" + n or starts with "/" + n and a space; the arguments
\* of a match are the rest of trim(t) after "/" + n, trimmed; and
\* "/statusbar check" does not match a registered "status".
C16_MatchRule ==
    probe.fn = "matchSlashCommand" =>
      /\ \A i \in 1..Len(registeredCommands) :
           (probe.result.matched /\ probe.result.name = registeredCommands[i])
             <=> SlashRule(registeredCommands[i], probe.text)
      /\ probe.result.matched =>
           /\ \E i \in 1..Len(registeredCommands) :
                registeredCommands[i] = probe.result.name
           /\ probe.result.args =
                Trim(SubSeq(Trim(probe.text), Len(probe.result.name) + 2,
                            Len(Trim(probe.text))))
      /\ probe.text = "/statusbar check" => probe.result.name /= "status"

C16_Witness ==
    /\ probe.fn = "matchSlashCommand"
    /\ probe.text = "/status  deploy  now "
    /\ registeredCommands = <<"stat", "status">>
    /\ probe.result = [matched |-> TRUE, name |-> "status", args |-> "deploy  now"]

\* The fixed failure message for a command name.
FailureText(name) == "Command /" \o name \o " failed. Please try again."

\* C12: when the handler of a matched command raises, the error is caught
\* inside activity processing: the send that follows carries the message
\* 'Command /<name> failed. Please try again.' for that command; once the
\* transport accepts it the message is the last thing sent and the turn is
\* over without anything raised; the only error that can leave processing
\* afterwards is the failure of that very send.
C12_HandlerErrorContained ==
    turn.handlerRaised =>
      /\ turn.handlerCalls = 1
      /\ turn.send.op = "failure"
      /\ turn.pc \in {"send", "turnError", "done"}
      /\ turn.send.pc \in {"calling", "waiting"} =>
           (turn.pc = "send" /\ ~turn.raised /\
            turn.payload.text = FailureText(turn.command))
      /\ turn.send.pc = "returned" =>
           /\ turn.pc = "done"
           /\ ~turn.raised
           /\ Len(turn.sent) > 0
           /\ turn.sent[Len(turn.sent)].text = FailureText(turn.command)
      /\ turn.raised => turn.send.pc = "thrown"

C12_Witness ==
    /\ turn.handlerRaised
    /\ turn.pc = "done"
    /\ ~turn.raised
    /\ turn.replies = 0
    /\ turn.command = "status"
    /\ Len(turn.sent) = 1
    /\ turn.sent[1].text = "Command /status failed. Please try again."

\* C13: when a matched command handler completes and yields a non-empty
\* result text, that text has been sent to the conversation when the turn
\* is over.
C13_ResultSent ==
    ( /\ turn.pc = "done"
      /\ turn.handlerCalls = 1
      /\ ~turn.handlerRaised
      /\ turn.result /= Undefined /\ turn.result /= "" )
      => \E i \in 1..Len(turn.sent) : turn.sent[i].text = turn.result

\* C14 as stated: a send that failed with a retryable status on every one of
\* its maxRetries + 1 attempts leaves activity processing without raising.
C14_RetryableSwallowed ==
    ( /\ turn.send.pc = "thrown"
      /\ ClaimRetryable(turn.send.thrown)
      /\ turn.send.calls = turn.send.maxRetries + 1 )
      => ~turn.raised

\* C14, amended: a send that keeps failing with a retryable status is given
\* up after maxRetries + 1 attempts and withRetry rethrows the last error;
\* when the send carries the agent's response or the command failure message
\* the error leaves activity processing and reaches the turn-error handler;
\* when the send was made through a command's reply the error rejects into
\* the command handler and nothing has left activity processing.
C14_RetryableRaised ==
    (turn.send.pc = "thrown" /\ ClaimRetryable(turn.send.thrown))
      => /\ turn.send.calls = turn.send.maxRetries + 1
         /\ turn.send.waits = turn.send.maxRetries
         /\ turn.send.op \in {"response", "failure"} =>
              (turn.raised /\ turn.pc \in {"turnError", "done"})
         /\ turn.send.op = "reply" =>
              (~turn.raised /\ turn.pc \in {"handler", "done"})

C14_Witness ==
    /\ turn.send.pc = "thrown"
    /\ turn.send.op = "response"
    /\ turn.send.thrown.name = "e429"
    /\ turn.send.calls = 2
    /\ turn.raised
    /\ turn.pc = "turnError"

\* The send of the turn ended on a fatal delivery failure: the error it
\* raised carries a status other than 429 and 5xx, or no status.
FatalSendFailure ==
    /\ turn.send.pc = "thrown"
    /\ turn.send.thrown /= UndefinedError
    /\ ~ClaimRetryable(turn.send.thrown)

\* The fatal failure was not retried: the failing attempt is the last one,
\* and a send whose first attempt failed fatally was attempted exactly once
\* with no wait.
FatalNotRetried ==
    /\ turn.send.calls = Len(turn.send.errors)
    /\ turn.send.thrown = turn.send.errors[Len(turn.send.errors)]
    /\ ~ClaimRetryable(turn.send.errors[1]) =>
         (turn.send.calls = 1 /\ turn.send.waits = 0)

\* C15 as stated: a send that failed with a fatal error (a 4xx status other
\* than 429, or no status) was not attempted again and its error left
\* activity processing for the turn-error boundary, on every route.
C15_FatalPropagates ==
    FatalSendFailure => (FatalNotRetried /\ turn.raised)

\* C15, amended: a fatal delivery failure is attempted exactly once, with no
\* wait; when the send carries the agent's response or the command failure
\* message the error leaves activity processing and reaches the turn-error
\* boundary; when the send was made through a command's reply the error
\* rejects into the command handler and does not reach that boundary.
C15_FatalOnceAndRouted ==
    FatalSendFailure
      => /\ FatalNotRetried
         /\ turn.send.op \in {"response", "failure"} =>
              (turn.raised /\ turn.pc \in {"turnError", "done"})
         /\ turn.send.op = "reply" =>
              (~turn.raised /\ turn.pc \in {"handler", "done"})

C15_Witness ==
    /\ turn.send.pc = "thrown"
    /\ turn.send.op = "failure"
    /\ turn.send.thrown.name = "network"
    /\ turn.send.calls = 1
    /\ turn.raised
    /\ turn.handlerRaised
    /\ turn.pc = "done"

\* C17: for every routed activity exactly one route is taken: a text that
\* matches a currently registered command invokes that command's handler
\* once and never the agent; a text that matches no registered command
\* invokes no handler and is forwarded to the agent once.
C17_ExactlyOneRoute ==
    turn.outcome = "routed" =>
      IF \E i \in 1..Len(registeredCommands) :
            SlashRule(registeredCommands[i], turn.activity.text)
      THEN /\ turn.handlerCalls = 1
           /\ turn.injects = 0
           /\ \E i \in 1..Len(registeredCommands) :
                registeredCommands[i] = turn.command
           /\ SlashRule(turn.command, turn.activity.text)
      ELSE /\ turn.handlerCalls = 0
           /\ turn.command = Undefined
           /\ turn.injects = 1

C17_Witness ==
    /\ turn.outcome = "routed"
    /\ turn.activity.text = "/status now"
    /\ registeredCommands = <<>>
    /\ pluginState.messagesProcessed = 1
    /\ turn.handlerCalls = 0
    /\ turn.injects = 1
    /\ turn.pc = "done"

\* C18: a proactive send (provider send or extension sendAdaptiveCard) calls
\* the transport only if the reference store held an entry for the
\* conversation id when the send read it, and store entries are written
\* only by an inbound activity of that conversation and removed only by
\* shutdown; a send that found no entry, or no adapter, returned without a
\* transport call, without a delivery and without raising.
C18_ProactiveNeedsReference ==
    /\ [](probe.fn \in {"send", "sendAdaptiveCard"} =>
            /\ (probe.transportCalls > 0 \/ probe.delivered /= <<>>)
                 => ( /\ probe.ref /= None
                      /\ probe.ref[1].conversation = probe.channel
                      /\ probe.hadAdapter )
            /\ (probe.ref = None \/ ~probe.hadAdapter)
                 => ( /\ probe.result = "returned"
                      /\ probe.transportCalls = 0
                      /\ probe.delivered = <<>>
                      /\ retry.pc = "idle" ))
    /\ [][ /\ \A c \in ConvIds :
               /\ (conversationReferences[c] = None /\ conversationReferences'[c] /= None)
                    => ( /\ turn.pc = "idle" /\ turn'.pc /= "idle"
                         /\ turn'.activity.conversation = c
                         /\ conversationReferences'[c][1].conversation = c )
               /\ (conversationReferences[c] /= None /\ conversationReferences'[c] = None)
                    => (~adapter' /\ ~ctx' /\
                        \A d \in ConvIds : conversationReferences'[d] = None)
           /\ (probe' /= probe /\ probe'.fn \in {"send", "sendAdaptiveCard"}
                /\ probe'.result \in {"pending", "returned"} /\ probe'.delivered = <<>>
                /\ probe'.transportCalls <= 1 /\ retry'.attempt = 0)
                => probe'.ref = (IF probe'.channel \in ConvIds
                                 THEN conversationReferences[probe'.channel]
                                 ELSE None) ]_vars

C18_Witness ==
    /\ probe.fn = "sendAdaptiveCard"
    /\ probe.channel = "c2"
    /\ probe.result = "returned"
    /\ probe.transportCalls = 2
    /\ Len(probe.delivered) = 1
    /\ conversationReferences["c2"] /= None
    /\ conversationReferences["c1"] = None

\* C19: whenever the adapter is absent the reference store and the runtime
\* state are empty, and a webhook request taken then is answered 500 without
\* its activity being read; right after shutdown the command and parser
\* registries are empty too and the context is gone; only an init that ends
\* ready brings the adapter back.
C19_ShutdownResets ==
    /\ [](~adapter =>
            /\ \A c \in ConvIds : conversationReferences[c] = None
            /\ pluginState = [initialized |-> FALSE, startedAt |-> None,
                              teams |-> {}, channels |-> {}, tenants |-> {},
                              messagesProcessed |-> 0, activeConversations |-> {}]
            /\ turn.pc \in {"idle", "done"}
            /\ turn.pc = "done" =>
                 ( /\ turn.status = 500
                   /\ turn.outcome = "notInitialized"
                   /\ turn.activity.type = "none"
                   /\ turn.injects = 0 /\ turn.handlerCalls = 0
                   /\ turn.sendAttempts = 0 ))
    /\ [](probe.fn = "shutdown" =>
            /\ ~adapter /\ ~ctx
            /\ registeredCommands = <<>>
            /\ registeredParsers = {})
    /\ [][ /\ (ctx /\ ~ctx') =>
               ( /\ ~adapter'
                 /\ registeredCommands' = <<>>
                 /\ registeredParsers' = {}
                 /\ \A c \in ConvIds : conversationReferences'[c] = None
                 /\ pluginState'.messagesProcessed = 0
                 /\ ~pluginState'.initialized )
           /\ (~adapter /\ adapter') =>
               (probe'.fn = "init" /\ probe'.outcome.how = "ready") ]_vars

C19_Witness ==
    /\ probe.fn = "shutdown"
    /\ "extension:msteams-webmcp" \in hostRegistrations
    /\ config.appId = "app"
    /\ turn.pc = "done"
    /\ turn.status = 500

\* A credential is missing or empty in config and environment alike.
Unset(s) == s = Undefined \/ s = ""

MissingCredential(cfg, e) ==
    \/ (Unset(cfg.appId) /\ Unset(e.MSTEAMS_APP_ID))
    \/ (Unset(cfg.appPassword) /\ Unset(e.MSTEAMS_APP_PASSWORD))
    \/ (Unset(cfg.tenantId) /\ Unset(e.MSTEAMS_TENANT_ID))

\* The value a credential resolves to: the configured one unless unset.
Resolved(c, e) == IF Unset(c) THEN e ELSE c

Blank(s) == \A i \in 1..Len(s) : SubSeq(s, i, i) \in {" ", "\t", "\n"}

\* The message names the field.
Names(message, field) ==
    \E i \in 1..Len(message) :
        i + Len(field) - 1 <= Len(message)
        /\ SubSeq(message, i, i + Len(field) - 1) = field

\* C20 as stated: an init with a credential missing or empty in config and
\* environment alike fails with a thrown error that names a credential
\* field, and no adapter is created.
C20_MissingCredentialThrows ==
    (probe.fn = "init" /\ MissingCredential(config, env))
      => ( /\ probe.outcome.how = "thrown"
           /\ \E f \in {"appId", "appPassword", "tenantId"} :
                Names(probe.outcome.message, f)
           /\ adapter = probe.adapterBefore )

\* C20, amended: an init with a credential missing or empty in config and
\* environment alike returns without throwing (it logs a warning) and
\* creates no adapter; an init whose three credentials all resolve to
\* non-empty strings of which one is blank (whitespace only) fails with a
\* thrown error whose message names the first blank field in the order
\* appId, appPassword, tenantId, and creates no adapter; any other init
\* ends with the adapter present.
C20_InitCredentialOutcome ==
    probe.fn = "init" =>
      LET a == Resolved(config.appId, env.MSTEAMS_APP_ID)
          pw == Resolved(config.appPassword, env.MSTEAMS_APP_PASSWORD)
          t == Resolved(config.tenantId, env.MSTEAMS_TENANT_ID)
      IN  IF MissingCredential(config, env)
          THEN /\ probe.outcome.how = "warned"
               /\ adapter = probe.adapterBefore
          ELSE IF Blank(a) \/ Blank(pw) \/ Blank(t)
          THEN /\ probe.outcome.how = "thrown"
               /\ Names(probe.outcome.message,
                        IF Blank(a) THEN "appId"
                        ELSE IF Blank(pw) THEN "appPassword" ELSE "tenantId")
               /\ adapter = probe.adapterBefore
          ELSE /\ probe.outcome.how = "ready"
               /\ adapter

C20_Witness ==
    /\ probe.fn = "init"
    /\ probe.outcome.how = "thrown"
    /\ Names(probe.outcome.message, "tenantId")
    /\ config.appId = "id"
    /\ config.appPassword = Undefined
    /\ config.tenantId = ""
    /\ env.MSTEAMS_TENANT_ID = "\t"
    /\ ~adapter

\* None of the three credentials is present, in config or environment.
NoCredentials(cfg, e) ==
    /\ cfg.appId = Undefined /\ cfg.appPassword = Undefined
    /\ cfg.tenantId = Undefined
    /\ e.MSTEAMS_APP_ID = Undefined /\ e.MSTEAMS_APP_PASSWORD = Undefined
    /\ e.MSTEAMS_TENANT_ID = Undefined

\* C21: an init with no credentials in config or environment returns
\* without throwing, has registered the configuration schema with the host,
\* and creates no adapter; with no adapter from an earlier init, every
\* webhook request that follows is answered 500 without being processed.
C21_InitWithoutCredentials ==
    (probe.fn = "init" /\ NoCredentials(config, env)) =>
        /\ probe.outcome.how = "warned"
        /\ "configSchema:msteams" \in hostRegistrations
        /\ adapter => probe.adapterBefore
        /\ ~probe.adapterBefore =>
             ( /\ ~adapter
               /\ ~pluginState.initialized
               /\ turn.pc \in {"idle", "done"}
               /\ turn.pc = "done" =>
                    ( /\ turn.status = 500
                      /\ turn.outcome = "notInitialized"
                      /\ turn.injects = 0 /\ turn.sendAttempts = 0 ) )

C21_Witness ==
    /\ probe.fn = "init" /\ NoCredentials(config, env)
    /\ probe.outcome.how = "warned"
    /\ ~probe.adapterBefore
    /\ "configSchema:msteams" \in hostRegistrations
    /\ turn.pc = "done" /\ turn.status = 500

ApologyText == "Sorry, something went wrong!"

\* The replies of the turn: what sendResponse handed to sendActivity and
\* was delivered, and the reply of the send in progress.
TurnReplies ==
    { turn.sent[i] : i \in { j \in 1..Len(turn.sent) :
                               turn.sent[j].text /= ApologyText } }
    \cup (IF turn.pc = "send" THEN {turn.payload} ELSE {})

HasId(a) == a.id /= Undefined /\ a.id /= ""

CardMode(cfg) == cfg.useAdaptiveCards /= Some(FALSE)

\* C23: in card mode and in plain-text mode alike, a reply built by
\* sendResponse carries the id of the triggering activity as replyToId
\* exactly when replyStyle is "thread" and the triggering activity has an
\* id; otherwise it carries no replyToId.
C23_ReplyParent ==
    \A m \in TurnReplies :
        /\ m.kind = (IF CardMode(config) THEN "card" ELSE "text")
        /\ IF config.replyStyle = "thread" /\ HasId(turn.activity)
           THEN m.replyToId = turn.activity.id
           ELSE m.replyToId = Undefined

\* A plain-text reply delivered in thread style under its triggering id.
C23_Witness ==
    /\ config.replyStyle = "thread" /\ ~CardMode(config)
    /\ turn.activity.id = "m1"
    /\ Len(turn.sent) = 1
    /\ turn.sent[1].kind = "text" /\ turn.sent[1].replyToId = "m1"

\* C24 as stated: with replyStyle not configured, a reply to a triggering
\* activity that has an id carries that id as replyToId.
C24_DefaultThread ==
    (config.replyStyle = Undefined /\ HasId(turn.activity)) =>
        \A m \in TurnReplies : m.replyToId = turn.activity.id

\* The triggering activity of the turn is a personal-conversation message
\* from an allowed sender, other than the bot, that matches no registered
\* command.
PersonalForAgent ==
    LET a == turn.activity
    IN  /\ a.type = "message"
        /\ a.conversationType = "personal"
        /\ a.from /= Undefined /\ a.from /= a.recipient
        /\ a.conversation /= Undefined
        /\ isAllowed(config, a.from, "personal")
        /\ \A i \in 1..Len(registeredCommands) :
             ~SlashRule(registeredCommands[i], a.text)

\* C25: a personal-conversation message from an allowed sender that matches
\* no command invokes the agent exactly once, with the session key
\* "msteams-" + conversation id and the text "[" + sender name + "]: " +
\* message text ("Unknown" for a sender without a name), and no command
\* handler; when the send of the response succeeds the turn has delivered
\* exactly one message, whose text is what the agent returned, and a send
\* that succeeded at its first attempt was attempted once.
C25_OneInjectOneSend ==
    PersonalForAgent =>
      LET a == turn.activity
          name == IF a.fromName = Undefined THEN "Unknown" ELSE a.fromName
      IN  /\ turn.injects = 1 /\ turn.handlerCalls = 0
          /\ turn.sessionKey = "msteams-" \o a.conversation
          /\ turn.injected = "[" \o name \o "]: " \o a.text
          /\ turn.pc \in {"inject", "send"} => turn.sent = <<>>
          /\ turn.send.pc = "returned" =>
               /\ turn.pc = "done" /\ ~turn.raised
               /\ Len(turn.sent) = 1
               /\ turn.sent[1].text = turn.response
               /\ turn.send.errors = <<>> => turn.sendAttempts = 1

C25_Witness ==
    /\ PersonalForAgent
    /\ turn.activity.text = "/status now"
    /\ turn.sessionKey = "msteams-c1"
    /\ turn.injected = "[Ann]: /status now"
    /\ turn.response = "Bot says hello"
    /\ turn.send.pc = "returned" /\ turn.send.errors = <<>>
    /\ Len(turn.sent) = 1 /\ turn.sent[1].text = "Bot says hello"

\* A step in which handleWebhook hands an activity to processActivity.
ActivityProcessed ==
    /\ turn.pc = "idle" /\ turn'.pc /= "idle"
    /\ turn'.outcome \notin {"notInitialized", "noContext"}

\* The activity passes the message-type and self-sender filters and names
\* its sender and its conversation.
PassesFilters(a) ==
    /\ a.type = "message"
    /\ a.from /= a.recipient
    /\ a.from /= Undefined /\ a.conversation /= Undefined

\* The runtime counters count the activity: one more message processed and
\* its conversation among the conversations seen.
Counted(a) ==
    /\ pluginState'.messagesProcessed = pluginState.messagesProcessed + 1
    /\ pluginState'.activeConversations =
         pluginState.activeConversations \cup {a.conversation}

\* The reference of the activity is what the store holds for its
\* conversation.
Referenced(a) ==
    conversationReferences'[a.conversation] =
        Some([activityId |-> a.id, bot |-> a.recipient,
              conversation |-> a.conversation])

\* C26 as stated: every activity that passes the message-type and
\* self-sender filters updates the reference store and the runtime
\* counters, also when it ends policy-blocked or mention-suppressed.
C26_CountersBeforePolicy ==
    [][ (ActivityProcessed /\ PassesFilters(turn'.activity)) =>
           (Referenced(turn'.activity) /\ Counted(turn'.activity)) ]_vars

\* C26, amended: every processed activity that carries a conversation id
\* updates the reference store, whatever its type, sender and fate; the
\* runtime counters are updated only by an activity that passed the
\* filters, the access policy and the mention gate: an activity that ends
\* filtered, policy-blocked or mention-suppressed leaves them unchanged.
C26_ReferenceAlwaysCountersWhenRouted ==
    [][ ActivityProcessed =>
          LET a == turn'.activity
              passes == /\ PassesFilters(a)
                        /\ isAllowed(config, a.from, a.conversationType)
                        /\ (IsGroupKind(a.conversationType)
                            /\ config.requireMention /= Some(FALSE))
                              => BotMentioned(a)
          IN  /\ a.conversation /= Undefined => Referenced(a)
              /\ IF passes THEN Counted(a) ELSE UNCHANGED pluginState
              /\ (turn'.outcome \in {"blocked", "suppressed"}) =>
                   (PassesFilters(a) /\ ~passes) ]_vars

\* A policy-blocked activity whose reference is stored and which no counter
\* counted.
C26_Witness ==
    /\ turn.outcome = "blocked"
    /\ turn.activity.conversation = "c1"
    /\ conversationReferences["c1"] =
         Some([activityId |-> turn.activity.id, bot |-> BotId,
               conversation |-> "c1"])
    /\ pluginState.messagesProcessed = 0
    /\ pluginState.activeConversations = {}

\* A step in which the provider's send reads the store for its channel.
StoreRead ==
    /\ RetryFree
    /\ probe'.fn = "send"
    /\ probe' /= probe

MatchingAt(t) ==
    { i \in 1..Len(registeredCommands) : SlashRule(registeredCommands[i], t) }

Least(S) == CHOOSE i \in S : \A j \in S : i <= j

\* A step that is a call of registerCommand / of unregisterCommand.
RegistrationStep ==
    /\ probe'.fn = "registerCommand"
    /\ <<probe, registeredCommands, commandHandlers>>'
         /= <<probe, registeredCommands, commandHandlers>>

UnregistrationStep ==
    /\ probe'.fn = "unregisterCommand"
    /\ <<probe, registeredCommands, commandHandlers>>'
         /= <<probe, registeredCommands, commandHandlers>>

\* C28: a routed text that several registered names match is dispatched to
\* the first of them in the registry's order, with the handler the registry
\* holds for it; the registry's order is the order of registration (a new
\* name is put after all present ones, the others keep their places when a
\* name is removed), and registering a name that is present keeps its
\* place and replaces its handler, so the handler invoked is that of the
\* most recent registration of the name.
C28_RegistryOrder ==
    /\ []((turn.pc /= "idle" /\ turn.outcome = "routed") =>
            LET M == MatchingAt(turn.activity.text)
            IN  IF M = {}
                THEN turn.command = Undefined /\ turn.handlerCalls = 0
                ELSE /\ turn.command = registeredCommands[Least(M)]
                     /\ turn.handler = commandHandlers[Least(M)]
                     /\ turn.handlerCalls = 1)
    /\ [][ /\ RegistrationStep =>
                LET n == probe'.name
                    i == IndexOf(registeredCommands, n)
                IN  /\ probe'.replaced <=> i /= 0
                    /\ IF i = 0
                       THEN /\ registeredCommands' = Append(registeredCommands, n)
                            /\ commandHandlers' =
                                 Append(commandHandlers, probe'.handler)
                       ELSE /\ registeredCommands' = registeredCommands
                            /\ commandHandlers'[i] = probe'.handler
                            /\ \A j \in 1..Len(commandHandlers) :
                                 j /= i => commandHandlers'[j] = commandHandlers[j]
           /\ UnregistrationStep =>
                /\ registeredCommands' =
                     SelectSeq(registeredCommands, LAMBDA m : m /= probe'.name)
                /\ \A j \in 1..Len(registeredCommands') :
                     commandHandlers'[j] =
                       commandHandlers[IndexOf(registeredCommands,
                                               registeredCommands'[j])]
           /\ (~RegistrationStep /\ ~UnregistrationStep) =>
                UNCHANGED <<registeredCommands, commandHandlers>> ]_vars

\* "stat" was registered before "stat us" and has just been registered
\* again with another handler; "/stat us", which both names match, is
\* dispatched to "stat" and the new handler.
C28_Witness ==
    /\ probe.fn = "registerCommand" /\ probe.replaced
    /\ probe.name = "stat" /\ probe.handler = "h2"
    /\ registeredCommands = <<"stat", "stat us">>
    /\ commandHandlers = <<"h2", "h1">>
    /\ turn.activity.text = "/stat us"
    /\ turn.command = "stat" /\ turn.args = "us"
    /\ turn.handler = "h2" /\ turn.handlerCalls = 1

\* Retry-After values that are a non-negative number of seconds, each with
\* the milliseconds it stands for.
SecondsValues ==
    { <<"120", 120000>>, <<"0", 0>>, <<"5", 5000>>, <<"007", 7000>>,
      <<"1.5", 1500>>, <<"0.002", 2>>, <<".5", 500>>, <<"5.", 5000>>,
      <<"+3", 3000>>, <<" 7 ", 7000>>, <<"-0", 0>> }

\* Retry-After values that are HTTP dates, each with its instant.
DateValues ==
    { <<"Wed, 21 Oct 2015 07:28:00 GMT", 0>>,
      <<"Wed, 21 Oct 2015 07:28:03 GMT", 3000>>,
      <<"Wed, 21 Oct 2015 07:27:55 GMT", -5000>> }

\* Retry-After values that are neither: absent, empty, blank, negative
\* numbers, and text.
NoHintValues ==
    { Undefined, "", "   ", "-5", "-0.5", "abc", "12abc", "1.2.3", "-", ".",
      "5 seconds", "tomorrow" }

\* C30: parseRetryAfter returns seconds * 1000 for a non-negative number of
\* seconds ("120" gives 120000), the milliseconds that remain until the
\* date, or 0 when the date is not in the future, for an HTTP date, and 0
\* for an absent, empty or unparseable value; it never returns a negative
\* number.
C30_ParseRetryAfter ==
    probe.fn = "parseRetryAfter" =>
        /\ probe.result >= 0
        /\ \A sv \in SecondsValues :
             probe.value = sv[1] => probe.result = sv[2]
        /\ \A dv \in DateValues :
             probe.value = dv[1] =>
               probe.result = (IF dv[2] > probe.now THEN dv[2] - probe.now ELSE 0)
        /\ probe.value \in NoHintValues => probe.result = 0
        /\ probe.value \in { sv[1] : sv \in SecondsValues }
                             \cup { dv[1] : dv \in DateValues } \cup NoHintValues

\* A date that has passed when the clock is read gives 0.
C30_Witness ==
    /\ probe.fn = "parseRetryAfter"
    /\ probe.value = "Wed, 21 Oct 2015 07:28:03 GMT"
    /\ probe.now = 4000
    /\ probe.result = 0

\* C29: the wait computed before the retry that follows attempt n, for a
\* base delay b >= 0 and an error whose Retry-After hint is h ms, is the
\* larger of h and a jitter j, an integer with 0 <= j < b * 2^n (j = 0 when
\* b = 0); h is not negative, and the wait is neither negative nor smaller
\* than h.
C29_BackoffWait ==
    (retry.pc = "waiting" /\ retry.baseDelayMs >= 0) =>
        LET n == retry.attempt
            b == retry.baseDelayMs
            h == parseRetryAfter(retry.lastError.retryAfter, RetryClock)
        IN  /\ n >= 0
            /\ h >= 0
            /\ retry.delay >= 0
            /\ retry.delay >= h
            /\ \E j \in 0..(b * Pow2(n)) :
                 /\ j < b * Pow2(n) \/ (b = 0 /\ j = 0)
                 /\ retry.delay = (IF j >= h THEN j ELSE h)

\* After the third attempt (n = 2) with base delay 1 the jitter 3 exceeds a
\* hint of 2 ms.
C29_Witness ==
    /\ retry.pc = "waiting"
    /\ retry.attempt = 2 /\ retry.baseDelayMs = 1
    /\ retry.lastError.retryAfter = "0.002"
    /\ retry.delay = 3

\* ------------------------------------------------------------------------
\* Specification of the outbound calls: replies, command failure messages,
\* the turn-error apology, proactive sends and attachment downloads, with
\* shutdown taken at any moment
\* ------------------------------------------------------------------------

OutboundConfig == LifecycleConfig

\* A message for the agent and a message that is a registered command.
OutboundActivities ==
    { Activity("message", "u1", "hello", "c1", "personal", None, "m1"),
      Activity("message", "u1", "/status", "c1", "personal", None, "m2") }

\* The attachment lists downloadAttachment is called with: one that passes
\* the download gate and one that does not.
OutboundInputs ==
    { p \in GuardInputs :
        /\ p.attachmentIndex = 0
        /\ p.url \in {"https://media.botframework.com/x", "https://evil.com/x"} }

InitOutbound ==
    /\ ctx = FALSE
    /\ config = EmptyConfig
    /\ adapter = FALSE
    /\ conversationReferences = [c \in ConvIds |-> None]
    /\ pluginState = EmptyPluginState
    /\ registeredCommands = <<>>
    /\ commandHandlers = <<>>
    /\ registeredParsers = {}
    /\ turn = IdleTurn
    /\ retry = IdleRetry
    /\ hostRegistrations = {}
    /\ env = NoEnv
    /\ logger = FALSE
    /\ probe \in OutboundInputs

\* init and registerCommand are taken while nothing is in flight.  shutdown
\* is taken at any moment: between operations, while a turn awaits the
\* agent, a handler or a send, and while a withRetry of a send, a proactive
\* send or a download awaits its operation or its backoff timer.
NextOutbound ==
    \/ TurnFree /\ RetryFree /\ PluginInit(OutboundConfig) /\ UNCHANGED probe
    \/ PluginShutdown /\ UNCHANGED probe
    \/ TurnFree /\ RegisterCommand("status") /\ UNCHANGED probe
    \/ \E a \in OutboundActivities : HandleWebhook(a)
    \/ \E response \in AgentReplies : AgentResolves(response)
    \/ AgentRejects
    \/ HandlerReplies("pong")
    \/ \E result \in HandlerResults : HandlerReturns(result)
    \/ HandlerThrows
    \/ SendResolves
    \/ \E err \in SendErrors, jitter \in 0..1 : SendRejects(err, jitter)
    \/ SendTimer
    \/ \E delivered \in BOOLEAN : OnTurnError(delivered)
    \/ TurnEnds
    \/ ProviderSend("c1", "ping")
    \/ SendAdaptiveCard("c1", "card")
    \/ ProactiveResolves
    \/ \E err \in SendErrors, jitter \in 0..1 : ProactiveRejects(err, jitter)
    \/ ProactiveTimer
    \/ RetryFree /\ DownloadAttachment
    \/ retry.op = "download" /\ FnResolves
    \/ \E err \in SendErrors, jitter \in 0..1 :
         retry.op = "download" /\ FnRejects(err, jitter)
    \/ retry.op = "download" /\ RetryTimer

SpecOutbound == InitOutbound /\ [][NextOutbound]_vars

\* ------------------------------------------------------------------------
\* C31: which outbound calls run inside withRetry
\* ------------------------------------------------------------------------

\* A step in which the turn calls turnContext.sendActivity.
TurnSendStep == turn'.sendAttempts > turn.sendAttempts

\* The call of the step is an invocation of fn by the withRetry of a
\* sendResponse: the first one, or the one that follows the backoff wait
\* after a retryable error, and within the attempt bound.
InsideRetry ==
    /\ turn'.pc = "send"
    /\ turn'.send.pc = "calling"
    /\ turn'.send.op \in {"response", "reply", "failure"}
    /\ turn'.send.calls <= turn'.send.maxRetries + 1
    /\ IF turn.pc = "send"
       THEN /\ turn.send.pc = "waiting"
            /\ isRetryable(ErrStatus(turn.send.lastError))
            /\ turn'.send.calls = turn.send.calls + 1
       ELSE turn'.send.calls = 1

\* The call of the step is made by adapter.onTurnError: once, with no
\* withRetry around it, and the turn is over whether it went out or not.
DirectApology ==
    /\ turn.pc = "turnError"
    /\ turn'.pc = "done"
    /\ turn'.sendAttempts = turn.sendAttempts + 1
    /\ turn'.send = turn.send

\* The transport calls of a proactive send are invocations of fn by its
\* withRetry; a send that returned at its gate made none.
ProactiveInsideRetry ==
    probe.fn \in {"send", "sendAdaptiveCard"} =>
        IF retry.op = "proactive"
        THEN /\ probe.transportCalls <= retry.calls
             /\ retry.calls <= retry.maxRetries + 1
             /\ Len(probe.delivered) <= 1
             /\ Len(probe.delivered) = 1 => retry.pc = "returned"
        ELSE probe.transportCalls = 0 /\ probe.delivered = <<>>

\* A download that passed its gate is the fn of a withRetry.
DownloadInsideRetry ==
    (probe.fn = "downloadAttachment" /\ probe.result /= "null") =>
        /\ retry.op = "download"
        /\ 1 <= retry.calls /\ retry.calls <= retry.maxRetries + 1
        /\ probe.result = "file" <=> retry.pc = "returned"
        /\ probe.result = "thrown" <=> retry.pc = "thrown"

\* C31 as stated: every outbound call of the plugin, the message sent from
\* the turn-error hook included, is executed inside the retry executor.
C31_AllOutboundInsideRetry ==
    /\ [](ProactiveInsideRetry /\ DownloadInsideRetry)
    /\ [][TurnSendStep => InsideRetry]_vars

\* C31: reply sends, command failure messages, proactive sends and
\* attachment downloads are executed inside withRetry, within its attempt
\* bound and re-invoked only after a retryable error; the message sent from
\* the turn-error hook is one direct sendActivity outside withRetry, never
\* retried.
C31_OutboundInsideRetryExceptApology ==
    /\ [](ProactiveInsideRetry /\ DownloadInsideRetry)
    /\ [][TurnSendStep => (IF turn.pc = "turnError" THEN DirectApology
                           ELSE InsideRetry)]_vars

\* The reply was attempted twice inside withRetry and given up; the apology
\* then went out with a single call.
C31_Witness ==
    /\ turn.pc = "done"
    /\ turn.raised
    /\ turn.send.op = "response"
    /\ turn.send.pc = "thrown"
    /\ turn.send.calls = 2
    /\ turn.sendAttempts = 3
    /\ Len(turn.sent) = 1
    /\ turn.sent[1].text = "Sorry, something went wrong!"

\* ------------------------------------------------------------------------
\* C32: shutdown and retry sequences in progress
\* ------------------------------------------------------------------------

\* A step of plugin.shutdown() on an initialised plugin.
ShutdownStep == ctx /\ ~ctx'

\* A withRetry that awaits its operation or its backoff timer.
InProgress(r) == r.pc \in {"calling", "waiting"}

\* The backoff wait of r ended in the step to r2: fn was invoked once more.
Reinvoked(r, r2) ==
    /\ r2.calls = r.calls + 1
    /\ r2.attempt = r.attempt + 1
    /\ r2.pc = "calling" \/ (r2.pc = "thrown" /\ r2.thrown = TypeError)

\* C32: a retry sequence that is in progress when shutdown is called is not
\* cancelled: shutdown leaves it as it is, its pending wait can still
\* elapse, and when it elapses the operation is invoked again, until it
\* succeeds, fails fatally or the retry budget is consumed.
C32_ShutdownDoesNotCancelRetry ==
    /\ [][ShutdownStep => UNCHANGED <<turn, retry>>]_vars
    /\ []((turn.pc = "send" /\ turn.send.pc = "waiting") => ENABLED SendTimer)
    /\ []((retry.op = "proactive" /\ retry.pc = "waiting") => ENABLED ProactiveTimer)
    /\ []((retry.op = "download" /\ retry.pc = "waiting") => ENABLED RetryTimer)
    /\ [][(turn.pc = "send" /\ turn.send.pc = "waiting" /\ turn'.send /= turn.send)
            => Reinvoked(turn.send, turn'.send)]_vars
    /\ [][(retry.pc = "waiting" /\ retry' /= retry)
            => Reinvoked(retry, retry')]_vars
    /\ [](turn.send.calls <= turn.send.maxRetries + 1
            /\ (InProgress(retry) => retry.calls <= retry.maxRetries + 1))

\* Shutdown was called while a proactive send waited for its backoff timer:
\* the wait elapsed and the operation was invoked a second time, which
\* failed fatally on the adapter that shutdown had set to null.
C32_Witness ==
    /\ ~ctx /\ ~adapter
    /\ retry.op = "proactive"
    /\ retry.pc = "thrown"
    /\ retry.thrown = TypeError
    /\ retry.calls = 2
    /\ retry.waits = 1

\* ------------------------------------------------------------------------
\* C33: command handlers run behind the policy and mention gates
\* ------------------------------------------------------------------------

\* C33: a slash-command handler is invoked for an activity only after the
\* activity passed the gates of agent forwarding: it is a message of another
\* sender, isAllowed allowed the sender for the conversation kind, and in a
\* channel or groupChat with mention gating enabled the bot was mentioned;
\* a blocked or suppressed activity runs no command.
C33_CommandOnlyAfterGates ==
    /\ turn.handlerCalls > 0 =>
         /\ turn.outcome = "routed"
         /\ turn.decision = "allow"
         /\ turn.activity.type = "message"
         /\ turn.activity.from /= BotId
         /\ isAllowed(config, turn.activity.from,
                      IF Truthy(turn.activity.conversationType)
                      THEN turn.activity.conversationType ELSE "personal")
         /\ (turn.activity.conversationType \in {"channel", "groupChat"}
               /\ config.requireMention /= Some(FALSE))
              => BotMentioned(turn.activity)
    /\ turn.outcome \in {"blocked", "suppressed", "filtered"} =>
         /\ turn.handlerCalls = 0
         /\ turn.command = Undefined
         /\ turn.handler = Undefined
         /\ turn.sendAttempts = 0

\* A command of a channel message ran: the sender is on the group
\* allow-list and the message mentions the bot.
C33_Witness ==
    /\ turn.handlerCalls = 1
    /\ turn.command = "status"
    /\ turn.activity.conversationType = "channel"
    /\ turn.activity.from = "u2"
    /\ config.groupPolicy = "allowlist"
    /\ config.requireMention /= Some(FALSE)
    /\ BotMentioned(turn.activity)

\* ------------------------------------------------------------------------
\* C34: retries repeat the send, never the agent or the command handler
\* ------------------------------------------------------------------------

\* C34: for one inbound activity the agent is invoked at most once and a
\* command handler at most once, never both; a step that calls sendActivity
\* (the first attempt of a send or a retry of it) invokes neither.
C34_RetriesNeverReinvoke ==
    /\ [](/\ turn.injects + turn.handlerCalls <= 1
          /\ turn.send.calls > 1 =>
               (turn.injects + turn.handlerCalls = 1
                  /\ turn.sendAttempts >= turn.send.calls))
    /\ [][turn'.sendAttempts > turn.sendAttempts =>
            /\ turn'.injects = turn.injects
            /\ turn'.handlerCalls = turn.handlerCalls
            /\ turn'.injected = turn.injected]_vars

\* The reply of the agent went out at the second attempt; the agent was
\* invoked once.
C34_Witness ==
    /\ turn.injects = 1
    /\ turn.response = "reply"
    /\ turn.send.op = "response"
    /\ turn.send.pc = "returned"
    /\ turn.send.calls = 2
    /\ turn.sendAttempts = 2
    /\ Len(turn.sent) = 1

\* ------------------------------------------------------------------------
\* C35: withRetry and a negative maxRetries
\* ------------------------------------------------------------------------

\* C35: withRetry invokes the operation at least once for every value of
\* maxRetries, negative values from options or configuration included, and
\* whenever it fails it raises an error that the operation itself raised.
C35_InvokedAtLeastOnce ==
    retry.pc /= "idle" =>
        /\ retry.calls >= 1
        /\ retry.pc = "thrown" =>
             \E i \in 1..Len(retry.errors) : retry.errors[i] = retry.thrown

\* ------------------------------------------------------------------------
\* Specification of the conversation kinds
\* ------------------------------------------------------------------------

\* activity.conversation.conversationType as the transport may deliver it:
\* absent, empty, the three kinds of Teams, and values that are none of
\* them (another kind, another spelling).
KindValues ==
    {Undefined, "", "personal", "channel", "groupChat", "meeting",
     "Channel", "groupchat"}

KindActivities ==
    { Activity("message", f, "hello", "c1", ct, en, "m1") :
        f \in UserIds, ct \in KindValues,
        en \in {None, Some(<<Mention(BotId)>>)} }

InitKinds ==
    /\ ctx = FALSE
    /\ config = EmptyConfig
    /\ adapter = FALSE
    /\ conversationReferences = [c \in ConvIds |-> None]
    /\ pluginState = EmptyPluginState
    /\ registeredCommands = <<>>
    /\ commandHandlers = <<>>
    /\ registeredParsers = {}
    /\ turn = IdleTurn
    /\ retry = IdleRetry
    /\ hostRegistrations = {}
    /\ env = NoEnv
    /\ logger = FALSE
    /\ probe = [fn |-> "none"]

NextKinds ==
    \/ \E cfg \in PipelineConfigs : TurnFree /\ PluginInit(cfg) /\ UNCHANGED probe
    \/ \E a \in KindActivities : HandleWebhook(a)
    \/ \E response \in AgentReplies : AgentResolves(response)
    \/ SendResolves
    \/ TurnEnds

SpecKinds == InitKinds /\ [][NextKinds]_vars

\* ------------------------------------------------------------------------
\* C36: which policy decides which conversation kind
\* ------------------------------------------------------------------------

\* The decision under the DM policy and the DM allow-list.
DmAllows(cfg, userId) ==
    CASE cfg.dmPolicy \in {"open", "pairing", Undefined} -> TRUE
      [] cfg.dmPolicy = "disabled" -> FALSE
      [] cfg.dmPolicy = "allowlist" -> ListAllows(cfg.allowFrom, userId)

\* The decision under the group policy and the effective group allow-list.
GroupAllows(cfg, userId) ==
    CASE cfg.groupPolicy = "open" -> TRUE
      [] cfg.groupPolicy = "disabled" -> FALSE
      [] cfg.groupPolicy \in {"allowlist", Undefined} ->
           ListAllows(IF cfg.groupAllowFrom /= None
                      THEN cfg.groupAllowFrom ELSE cfg.allowFrom, userId)

\* C36: an activity whose conversation kind is absent or is any value other
\* than channel or groupChat is decided under the DM policy and the DM
\* allow-list and is never mention-gated; the kinds channel and groupChat,
\* and only they, are decided under the group policy and are subject to
\* mention gating.
C36_KindSelectsPolicy ==
    turn.outcome \in {"routed", "blocked", "suppressed"} =>
        LET a == turn.activity
        IN  IF a.conversationType \in {"channel", "groupChat"}
            THEN /\ (turn.decision = "allow") = GroupAllows(config, a.from)
                 /\ turn.decision = "allow" =>
                      (turn.outcome = "suppressed") =
                         (config.requireMention /= Some(FALSE) /\ ~BotMentioned(a))
            ELSE /\ (turn.decision = "allow") = DmAllows(config, a.from)
                 /\ turn.mentionCheck = "none"
                 /\ turn.outcome /= "suppressed"
                 /\ turn.decision = "allow" => turn.outcome = "routed"

\* A message of a kind that is none of the three, without a mention, under
\* a group policy that denies everyone and mention gating enabled, is
\* allowed by the DM policy and forwarded to the agent.
C36_Witness ==
    /\ turn.activity.conversationType = "meeting"
    /\ turn.activity.entities = None
    /\ config.groupPolicy = "disabled"
    /\ config.dmPolicy = "allowlist"
    /\ config.requireMention = Some(TRUE)
    /\ turn.activity.from = "u1"
    /\ turn.outcome = "routed"
    /\ turn.injects = 1

\* ------------------------------------------------------------------------
\* C37: the key of a proactive channel-provider send
\* ------------------------------------------------------------------------

\* A step that is a call of msteamsChannelProvider.send(key, ...).
ProviderSendStep(key) ==
    /\ RetryFree
    /\ probe' /= probe
    /\ probe'.fn = "send"
    /\ probe'.channel = key

\* The channel id the pipeline reports to the agent and to command handlers
\* for conversation c: the id of the ChannelRef.
ChannelRefId(c) == "msteams:" \o c

\* C37: after an inbound activity of conversation c was
\* processed, a proactive channel-provider send addressed with the
\* ChannelRef id 'msteams:' + c finds the stored reference of c and
\* performs the send.
C37_ChannelRefIdFindsReference ==
    [][\A c \in ConvIds :
         (ProviderSendStep(ChannelRefId(c)) /\ adapter
            /\ IsSome(conversationReferences[c]))
           => (probe'.ref = conversationReferences[c]
                 /\ probe'.transportCalls = 1)]_vars

\* ------------------------------------------------------------------------
\* C38: what shutdown leaves registered with the host
\* ------------------------------------------------------------------------

\* The last lifecycle call that completed was shutdown: init sets ctx and
\* only shutdown clears it.
AfterShutdown == logger /\ ~ctx

\* C38: after init followed by shutdown every registration that init made
\* with the host (the channel provider 'msteams', the extension 'msteams'
\* and the extension 'msteams-webmcp') has been unregistered; no sequence of
\* init and shutdown calls leaves one of them behind after the last
\* shutdown.
C38_ShutdownUnregistersAll ==
    AfterShutdown =>
        hostRegistrations \cap {"provider:msteams", "extension:msteams",
                                "extension:msteams-webmcp"} = {}

\* ------------------------------------------------------------------------
\* Specification of the runtime state tracking
\* ------------------------------------------------------------------------

TrackConfigs ==
    { LifecycleConfig,
      [LifecycleConfig EXCEPT !.groupPolicy = "open",
                              !.requireMention = Some(FALSE)] }

\* Activities with and without a conversation id, and with and without the
\* team and the channel of channelData.
TrackActivities ==
    { [Activity(ty, f, "hello", conv, ct, None, "m1")
         EXCEPT !.teamId = t, !.channelId = ch] :
        ty \in {"message", "conversationUpdate"},
        f \in {"u1", BotId},
        conv \in ConvIds \cup {Undefined},
        ct \in {"personal", "channel"},
        t \in {Undefined, "t1", "t2"},
        ch \in {Undefined, "ch1"} }

InitTrack ==
    /\ ctx = FALSE
    /\ config = EmptyConfig
    /\ adapter = FALSE
    /\ conversationReferences = [c \in ConvIds |-> None]
    /\ pluginState = EmptyPluginState
    /\ registeredCommands = <<>>
    /\ commandHandlers = <<>>
    /\ registeredParsers = {}
    /\ turn = IdleTurn
    /\ retry = IdleRetry
    /\ hostRegistrations = {}
    /\ env = NoEnv
    /\ logger = FALSE
    /\ probe = [fn |-> "none"]

\* shutdown is taken at any moment, also while a turn awaits the agent or
\* its send.
NextTrack ==
    \/ \E cfg \in TrackConfigs : TurnFree /\ PluginInit(cfg) /\ UNCHANGED probe
    \/ PluginShutdown /\ UNCHANGED probe
    \/ \E a \in TrackActivities : HandleWebhook(a)
    \/ \E response \in AgentReplies : AgentResolves(response)
    \/ SendResolves
    \/ TurnEnds

SpecTrack == InitTrack /\ [][NextTrack]_vars

\* ------------------------------------------------------------------------
\* C39: consistency of the runtime state with the reference store
\* ------------------------------------------------------------------------

\* C39: in every reachable state every conversation id recorded as seen
\* (activeConversations) has an entry in the conversation reference store,
\* and every team id that keys the channels map also keys the teams map.
C39_StateConsistent ==
    /\ \A c \in pluginState.activeConversations :
         c \in DOMAIN conversationReferences /\ IsSome(conversationReferences[c])
    /\ \A tc \in pluginState.channels : tc[1] \in pluginState.teams

\* Between turns, after a routed channel message that named its team and
\* its channel.
C39_Witness ==
    /\ TurnFree
    /\ pluginState.messagesProcessed = 1
    /\ pluginState.activeConversations = {"c2"}
    /\ pluginState.channels = {<<"t2", "ch1">>}
    /\ pluginState.teams = {"t2"}
    /\ IsSome(conversationReferences["c2"])
    /\ conversationReferences["c1"] /= None

\* ------------------------------------------------------------------------
\* C40: the initialized flag, the adapter and the start timestamp
\* ------------------------------------------------------------------------

\* C40: over any sequence of init (with or without credentials),
\* activities, proactive sends and shutdown, pluginState.initialized is
\* true exactly when an adapter exists and startedAt is non-null exactly
\* when initialized is true, so getStatus reports online with a non-null
\* uptime or offline with a null uptime.
C40_InitializedIffAdapter ==
    /\ pluginState.initialized = adapter
    /\ (pluginState.startedAt /= None) = pluginState.initialized
    /\ getStatus(pluginState).online = adapter
    /\ (getStatus(pluginState).uptimeMs /= None) = getStatus(pluginState).online

\* An init without credentials that follows an init with credentials and a
\* shutdown: there is no adapter and the state is not initialized.
C40_Witness ==
    /\ ctx
    /\ config = EmptyConfig
    /\ "extension:msteams-webmcp" \in hostRegistrations
    /\ ~adapter
    /\ ~pluginState.initialized
    /\ pluginState.startedAt = None
    /\ getStatus(pluginState).online = FALSE

====
